---- MODULE Spec2Model ----
(***************************************************************************)
(* Model of the insiderwatch backtest core.                                *)
(*                                                                         *)
(* backtest/build_signals.py : first_cross_events, the rolling-window      *)
(* first-cross detector over a frame of insider trades, and main, which    *)
(* writes its signals to a file.                                           *)
(* backtest/evaluate.py : next_trading_open, returns_at and main, which    *)
(* aligns every signal to a price series and reports forward returns.      *)
(*                                                                         *)
(* Times are whole days (UTC), amounts are whole thousands of dollars and  *)
(* are summed exactly.                                                    *)
(***************************************************************************)
EXTENDS Integers, Sequences, FiniteSets, TLC

(***************************************************************************)
(* Bounds of the model.                                                    *)
(***************************************************************************)
MaxRows == 3        \* rows of the input frame
MaxT    == 2        \* filing days 0..MaxT
MaxSig  == 2        \* signals in the file evaluate.main reads
MaxDay  == 3        \* session dates 0..MaxDay of a price series
MaxRuns == 2        \* runs of build_signals.main, one after the other

(***************************************************************************)
(* Values of a frame cell.                                                 *)
(***************************************************************************)
\* pandas NaT: what to_datetime(errors="coerce") gives for a missing or
\* unparseable cell.
NaT == -1
\* pandas NaN: what to_numeric(errors="coerce") gives for unparseable text.
NaN == -1

\* A raw cell of the trades frame: a parseable value v, a missing cell
\* (None/NA) or a text that does not parse.
Val(v)  == [kind |-> "val", v |-> v]
Missing == [kind |-> "na",  v |-> 0]
Garbage == [kind |-> "str", v |-> 0]

\* The filing days of the frames.
Times == 0..MaxT

\* Lexicographic order of the symbol strings, as sort_values compares them.
SymOrd(s) == CASE s = "A" -> 1 [] s = "ABC" -> 2 [] s = "B" -> 3 [] OTHER -> 4

Row(sym, own, fd, amt, flag, txd) ==
    [symbol |-> sym, owner |-> own, filing_dt |-> fd, amount_usd |-> amt,
     tenb5 |-> flag, txn_date |-> txd]

VARIABLES
    trades,     \* the frame passed to first_cross_events (a sequence of rows)
    cfg,        \* window_days, min_owners, min_usd, exclude_10b5
    pc,         \* position in first_cross_events
    df,         \* the working frame: retained rows, sorted
    keys,       \* group keys groupby has still to yield
    g,          \* the current group, index reset
    r,          \* position of the row iterrows is at in g (1-based)
    signals,    \* the list of signal records appended so far
    out_file,   \* build_signals.main: the content of the file args.out
    runs,       \* build_signals.main: the runs of main started so far
    sig,        \* evaluate.main: the frame of signals read from args.signals
    data,       \* evaluate.main: the downloaded frame of every ticker
    args,       \* evaluate.main: horizons and cost_bps
    epc,        \* evaluate.main: position in main
    at,         \* evaluate.main: the signal iterrows is at (1-based)
    rows,       \* evaluate.main: the result records appended so far
    ev,         \* evaluate.main: the frame of results, net columns added
    summary,    \* evaluate.main: the summary line printed for every horizon
    report,     \* evaluate.main: the content of the file args.out
    trades_csv,   \* insider_trades.csv, the trade store: its lines
    append_log,   \* the writes to the store: the store before, the batch, after
    appends,      \* the writes to the store so far
    entries,      \* insider_scanner.main: the feed entries of the run
    ent,          \* insider_scanner.main: the entry the loop is at
    cand,         \* insider_scanner.main: the candidate the loop is at
    collected,    \* insider_scanner.main: the rows collected so far
    fetched,      \* insider_scanner.main: the URLs fetched, entry by entry
    scan_pc,      \* insider_scanner.main: position in main
    sell_entries, \* sell_alerts.main: the feed entries of the run
    sell_ent,     \* sell_alerts.main: the entry the loop is at
    all_rows,     \* sell_alerts.main: the sells collected so far
    sell_pc,      \* sell_alerts.main: position in main
    xml_doc,      \* the Form 4 document handed to a parser
    parsed,       \* the rows the parser returned
    parse_pc,     \* which parser has run
    state_file,   \* tase_scan: the content of .tase_state.txt
    probed,       \* tase_scan: the ids probed so far, with their blocks
    tase_runs,    \* tase_scan: the Mode B runs so far
    report_text,  \* tase_scan: the text handed to parse_tase_report_text
    tase_rows,    \* tase_scan: the rows parse_tase_report_text returned
    text_pc,      \* tase_scan: parse_tase_report_text has run
    q_range,      \* backfill_sec: the start and end of iter_quarters
    year,         \* backfill_sec.iter_quarters: y
    qtr,          \* backfill_sec.iter_quarters: q
    yielded,      \* backfill_sec.iter_quarters: the pairs yielded so far
    quarters_pc   \* backfill_sec.iter_quarters: position in the generator

\* The state of a run of first_cross_events, of build_signals.main and of
\* evaluate.main.
fceVars  == <<trades, cfg, pc, df, keys, g, r, signals>>
mainVars == <<out_file, runs>>
evalVars == <<sig, data, args, epc, at, rows, ev, summary, report>>

\* The state of the scripts around the store and of the TASE scan.
storeVars   == <<trades_csv, append_log, appends>>
scanVars    == <<entries, ent, cand, collected, fetched, scan_pc>>
sellVars    == <<sell_entries, sell_ent, all_rows, sell_pc>>
parseVars   == <<xml_doc, parsed, parse_pc>>
taseVars    == <<state_file, probed, tase_runs>>
textVars    == <<report_text, tase_rows, text_pc>>
quarterVars == <<q_range, year, qtr, yielded, quarters_pc>>
scriptVars  == <<storeVars, scanVars, sellVars, parseVars, taseVars,
                 textVars, quarterVars>>
vars == <<trades, cfg, pc, df, keys, g, r, signals, out_file, runs,
          sig, data, args, epc, at, rows, ev, summary, report,
          trades_csv, append_log, appends,
          entries, ent, cand, collected, fetched, scan_pc,
          sell_entries, sell_ent, all_rows, sell_pc,
          xml_doc, parsed, parse_pc,
          state_file, probed, tase_runs,
          report_text, tase_rows, text_pc,
          q_range, year, qtr, yielded, quarters_pc>>

(***************************************************************************)
(* build_signals.py, first_cross_events: the frame operations.             *)
(* The symbol and owner cells of the modelled frames are always present.   *)
(***************************************************************************)
\* to_datetime(cell, errors="coerce", utc=True)
to_datetime(cell) == IF cell.kind = "val" THEN cell.v ELSE NaT

\* pd.to_numeric(cell, errors="coerce")
to_numeric(cell) == IF cell.kind = "val" THEN cell.v ELSE NaN

\* The time column falling back to txn_date where filing_dt does not parse.
AddT_txn_fallback(frame) ==
    [i \in 1..Len(frame) |->
        [idx |-> i, symbol |-> frame[i].symbol, owner |-> frame[i].owner,
         t |-> IF frame[i].filing_dt.kind = "val" THEN frame[i].filing_dt.v
               ELSE frame[i].txn_date,
         amount_usd |-> frame[i].amount_usd, tenb5 |-> frame[i].tenb5,
         txn_date |-> frame[i].txn_date]]

\* df = df.copy(); df["_t"] = to_datetime(df.get("filing_dt"), ...)
\* idx is the frame's index label of the row, t is the column "_t".
AddT(frame) ==
    [i \in 1..Len(frame) |->
        [idx |-> i, symbol |-> frame[i].symbol, owner |-> frame[i].owner,
         t |-> to_datetime(frame[i].filing_dt),
         amount_usd |-> frame[i].amount_usd, tenb5 |-> frame[i].tenb5,
         txn_date |-> frame[i].txn_date]]

NotFlagged(x) == ~x.tenb5

\* The filter left out: flagged rows stay whatever exclude_10b5 says.
Drop10b5_never(frame, c) == frame

\* if exclude_10b5 and "tenb5" in df.columns: df = df[~df["tenb5"].astype(bool)]
Drop10b5(frame, c) ==
    IF c.exclude_10b5 THEN SelectSeq(frame, NotFlagged) ELSE frame

NoneMissing(x) == x.t # NaT /\ x.amount_usd.kind # "na"

\* df = df.dropna(subset=["symbol","_t","amount_usd","owner"])
DropNa(frame) == SelectSeq(frame, NoneMissing)

\* df["amount_usd"] = pd.to_numeric(df["amount_usd"], errors="coerce")
ToNumeric(frame) ==
    [i \in 1..Len(frame) |->
        [frame[i] EXCEPT !.amount_usd = to_numeric(frame[i].amount_usd)]]

\* The sort key taken as ["_t","symbol"].
KeyLess_time_first(x, y) ==
    \/ x.t < y.t
    \/ x.t = y.t /\ SymOrd(x.symbol) < SymOrd(y.symbol)

\* The sort key ["symbol","_t"]: x sorts strictly before y.
KeyLess(x, y) ==
    \/ SymOrd(x.symbol) < SymOrd(y.symbol)
    \/ SymOrd(x.symbol) = SymOrd(y.symbol) /\ x.t < y.t

\* x inserted into the sorted sequence s after every element not above it.
RECURSIVE InsertSorted(_, _)
InsertSorted(s, x) ==
    IF s = <<>> THEN <<x>>
    ELSE IF KeyLess(x, s[Len(s)])
         THEN Append(InsertSorted(SubSeq(s, 1, Len(s) - 1), x), s[Len(s)])
         ELSE Append(s, x)

\* The sort left out: the frame in arrival order.
sort_values_none(frame) == frame

\* df.sort_values(["symbol","_t"]): a stable sort on the two columns.
RECURSIVE sort_values(_)
sort_values(frame) ==
    IF frame = <<>> THEN <<>>
    ELSE InsertSorted(sort_values(SubSeq(frame, 1, Len(frame) - 1)),
                      frame[Len(frame)])

\* Lines 6-13: the frame the loop runs over.
Prepare(frame, c) == sort_values(ToNumeric(DropNa(Drop10b5(AddT(frame), c))))

\* The keys df.groupby("symbol", sort=False) yields: in order of first
\* appearance in the frame.
RECURSIVE GroupKeys(_)
GroupKeys(frame) ==
    IF frame = <<>> THEN <<>>
    ELSE LET rest == GroupKeys(SubSeq(frame, 1, Len(frame) - 1))
             s    == frame[Len(frame)].symbol
         IN  IF \E k \in 1..Len(rest) : rest[k] = s THEN rest
             ELSE Append(rest, s)

\* The group taken as the whole frame, whatever the key.
Group_whole_frame(frame, sym) == frame

\* The group of one key, g.reset_index(drop=True): positions 1..Len.
RECURSIVE Group(_, _)
Group(frame, sym) ==
    IF frame = <<>> THEN <<>>
    ELSE LET rest == Group(SubSeq(frame, 1, Len(frame) - 1), sym)
             x    == frame[Len(frame)]
         IN  IF x.symbol = sym THEN Append(rest, x) ELSE rest

\* The window with its lower boundary excluded.
w_open_left(grp, t0, c) ==
    {j \in 1..Len(grp) : grp[j].t > t0 - c.window_days /\ grp[j].t <= t0}

\* w = g[(g["_t"] >= t0 - Timedelta(days=window_days)) & (g["_t"] <= t0)]
\* as the set of positions of g it selects.
w(grp, t0, c) ==
    {j \in 1..Len(grp) : grp[j].t >= t0 - c.window_days /\ grp[j].t <= t0}

\* w_prev = g[(g["_t"] >= t0 - Timedelta(days=window_days)) & (g["_t"] < t0)]
w_prev(grp, t0, c) ==
    {j \in 1..Len(grp) : grp[j].t >= t0 - c.window_days /\ grp[j].t < t0}

\* sel["owner"].nunique()
nunique(grp, sel) == Cardinality({grp[j].owner : j \in sel})

\* sel["amount_usd"].sum(): NaN cells are skipped, the empty sum is 0.
RECURSIVE sum(_, _)
sum(grp, sel) ==
    IF sel = {} THEN 0
    ELSE LET j == CHOOSE k \in sel : TRUE
             a == grp[j].amount_usd
         IN  (IF a = NaN THEN 0 ELSE a) + sum(grp, sel \ {j})

\* The threshold as a disjunction: either condition alone crosses.
crossed_now_either(grp, t0, c) ==
    \/ nunique(grp, w(grp, t0, c)) >= c.min_owners
    \/ sum(grp, w(grp, t0, c)) >= c.min_usd

\* crossed_now = (owners >= min_owners) and (tots >= min_usd)
crossed_now(grp, t0, c) ==
    /\ nunique(grp, w(grp, t0, c)) >= c.min_owners
    /\ sum(grp, w(grp, t0, c)) >= c.min_usd

\* crossed_prev = (w_prev owners >= min_owners) and (w_prev total >= min_usd)
crossed_prev(grp, t0, c) ==
    /\ nunique(grp, w_prev(grp, t0, c)) >= c.min_owners
    /\ sum(grp, w_prev(grp, t0, c)) >= c.min_usd

\* Lines 18-26, the body of the loop for the row at position k of the
\* group: the signals it appends (one or none).
\* The loop body without the test of the previous window.
RowSignals_every_crossed_row(sym, grp, k, c) ==
    LET t0 == grp[k].t
    IN  IF crossed_now(grp, t0, c)
        THEN << [symbol |-> sym, t0 |-> t0,
                 owners_count |-> nunique(grp, w(grp, t0, c)),
                 total_usd |-> sum(grp, w(grp, t0, c))] >>
        ELSE <<>>

RowSignals(sym, grp, k, c) ==
    LET t0 == grp[k].t
    IN  IF crossed_now(grp, t0, c) /\ ~crossed_prev(grp, t0, c)
        THEN << [symbol |-> sym, t0 |-> t0,
                 owners_count |-> nunique(grp, w(grp, t0, c)),
                 total_usd |-> sum(grp, w(grp, t0, c))] >>
        ELSE <<>>

\* for _, row in g.iterrows(): ... for the rows 1..k of the group.
RECURSIVE GroupSignals(_, _, _, _)
GroupSignals(sym, grp, k, c) ==
    IF k = 0 THEN <<>>
    ELSE GroupSignals(sym, grp, k - 1, c) \o RowSignals(sym, grp, k, c)

\* for sym, g in df.groupby("symbol", sort=False): ... for the keys ks.
RECURSIVE FrameSignals(_, _, _)
FrameSignals(frame, ks, c) ==
    IF ks = <<>> THEN <<>>
    ELSE LET grp == Group(frame, Head(ks))
         IN  GroupSignals(Head(ks), grp, Len(grp), c)
                \o FrameSignals(frame, Tail(ks), c)

\* first_cross_events(df, window_days, min_owners, min_usd, exclude_10b5)
\* as a function of its arguments: the records of the returned frame.
first_cross_events(frame, c) ==
    LET d == Prepare(frame, c) IN FrameSignals(d, GroupKeys(d), c)

(***************************************************************************)
(* The inputs first_cross_events is called with.                           *)
(***************************************************************************)
\* The kinds of row the frames are made of, each with a day t.  Rows are
\* traded on day 0 and filed on day t, but for the undated ones, which have
\* no usable filing_dt and were traded on day t.
\*   1-3  symbol A, every cell parseable: two owners, two amounts
\*   4    symbol B, every cell parseable
\*   5    flagged as a 10b5-1 (scheduled plan) transaction
\*   6-7  filing_dt missing / not a timestamp
\*   8-9  amount_usd missing / not a number
RowOfKind(k, t) ==
    CASE k = 1  -> Row("A", "o1", Val(t), Val(1), FALSE, 0)
      [] k = 2  -> Row("A", "o2", Val(t), Val(1), FALSE, 0)
      [] k = 3  -> Row("A", "o2", Val(t), Val(2), FALSE, 0)
      [] k = 4  -> Row("B", "o1", Val(t), Val(2), FALSE, 0)
      [] k = 5  -> Row("A", "o1", Val(t), Val(2), TRUE, 0)
      [] k = 6  -> Row("A", "o1", Missing, Val(2), FALSE, t)
      [] k = 7  -> Row("A", "o1", Garbage, Val(2), FALSE, t)
      [] k = 8  -> Row("A", "o1", Val(t), Missing, FALSE, 0)
      [] OTHER  -> Row("A", "o1", Val(t), Garbage, FALSE, 0)

NormalKinds  == 1..4
SpecialKinds == 5..9

\* A row is picked by a kind and a day.  The day of a row that is dropped
\* whatever its day (kinds 7 and 8) is day 0.
RowPicks ==
    ((NormalKinds \cup {5, 6, 9}) \X Times) \cup ({7, 8} \X {0})

\* The number rows are ordered by when frames are enumerated.
PickCode(kt) == kt[1] * (MaxT + 1) + kt[2]

\* The sequences of up to n picks whose PickCode never increases.
RECURSIVE Picks(_)
Picks(n) ==
    IF n = 0 THEN {<<>>}
    ELSE {<<>>} \cup
         {Append(x[1], x[2]) :
            x \in {y \in Picks(n - 1) \X RowPicks :
                     \/ y[1] = <<>>
                     \/ PickCode(y[2]) <= PickCode(y[1][Len(y[1])])}}

\* Frames of up to MaxRows rows, at most one of them special.  Frames are
\* enumerated up to the order of their rows (one arrival order for every
\* multiset of rows); C7 covers the other orders.
Frames ==
    {[i \in 1..Len(pk) |-> RowOfKind(pk[i][1], pk[i][2])] :
        pk \in {qk \in Picks(MaxRows) :
                  Cardinality({i \in 1..Len(qk) : qk[i][1] \in SpecialKinds})
                      <= 1}}

Config(wd, mo, mu, ex) ==
    [window_days |-> wd, min_owners |-> mo, min_usd |-> mu, exclude_10b5 |-> ex]

\* Thresholds in reach of MaxRows rows: one owner and 2, two owners and 3.
Configs ==
    {Config(wd, th[1], th[2], ex) :
        wd \in 1..2, th \in {<<1, 2>>, <<2, 3>>}, ex \in BOOLEAN}

\* The scenario of the specification: A1 200,000 at Day0, A2 150,000 at
\* Day3, A3 100,000 at Day10; window 14 days, 3 owners, 300,000.
ScenarioRows ==
    << Row("ABC", "A1", Val(0),  Val(200), FALSE, 0),
       Row("ABC", "A2", Val(3),  Val(150), FALSE, 3),
       Row("ABC", "A3", Val(10), Val(100), FALSE, 10) >>

ScenarioConfig == Config(14, 3, 300, TRUE)

ScenarioFrames ==
    {[i \in 1..3 |-> ScenarioRows[p[i]]] : p \in Permutations(1..3)}

(***************************************************************************)
(* first_cross_events as a run: one action per step of the function.       *)
(***************************************************************************)
\* The content of a path: no file there, or a file of records.
NoFile == [exists |-> FALSE, records |-> <<>>]
File(recs) == [exists |-> TRUE, records |-> recs]

\* No script has written the store, and the store is not being written.
StoreIdle ==
    /\ trades_csv = NoFile
    /\ append_log = <<>>
    /\ appends = 0

\* insider_scanner.main is not running.
ScanIdle ==
    /\ entries = <<>>
    /\ ent = 0
    /\ cand = 0
    /\ collected = <<>>
    /\ fetched = <<>>
    /\ scan_pc = "idle"

\* sell_alerts.main is not running.
SellIdle ==
    /\ sell_entries = <<>>
    /\ sell_ent = 0
    /\ all_rows = <<>>
    /\ sell_pc = "idle"

\* No Form 4 parser is running.
ParseIdle ==
    /\ xml_doc = <<>>
    /\ parsed = <<>>
    /\ parse_pc = "idle"

\* tase_scan has not run in Mode B.
TaseIdle ==
    /\ state_file = NoFile
    /\ probed = <<>>
    /\ tase_runs = 0

\* parse_tase_report_text is not running.
TextIdle ==
    /\ report_text = <<>>
    /\ tase_rows = <<>>
    /\ text_pc = "idle"

\* iter_quarters is not running.
QuartersIdle ==
    /\ q_range = <<>>
    /\ year = 0
    /\ qtr = 0
    /\ yielded = <<>>
    /\ quarters_pc = "idle"

ScriptsIdle ==
    /\ StoreIdle /\ ScanIdle /\ SellIdle /\ ParseIdle
    /\ TaseIdle /\ TextIdle /\ QuartersIdle

\* evaluate.main is not running.
EvalIdle ==
    /\ sig = <<>>
    /\ data = <<>>
    /\ args = <<>>
    /\ epc = "idle"
    /\ at = 0
    /\ rows = <<>>
    /\ ev = <<>>
    /\ summary = <<>>
    /\ report = NoFile

Init ==
    /\ \/ trades \in Frames /\ cfg \in Configs
       \/ trades \in ScenarioFrames /\ cfg = ScenarioConfig
    /\ pc = "start"
    /\ df = <<>>
    /\ keys = <<>>
    /\ g = <<>>
    /\ r = 0
    /\ signals = <<>>
    /\ out_file = NoFile
    /\ runs = 0
    /\ EvalIdle
    /\ ScriptsIdle

\* Lines 6-14: filter, coerce, sort; signals = []; groupby.
Call ==
    /\ pc = "start"
    /\ df' = Prepare(trades, cfg)
    /\ keys' = GroupKeys(df')
    /\ signals' = <<>>
    /\ pc' = "groups"
    /\ UNCHANGED <<trades, cfg, g, r>>
    /\ UNCHANGED <<mainVars, evalVars, scriptVars>>

\* Lines 15-16: the next group, its index reset.
NextGroup ==
    /\ pc = "groups"
    /\ keys # <<>>
    /\ g' = Group(df, Head(keys))
    /\ r' = 1
    /\ pc' = "rows"
    /\ UNCHANGED <<trades, cfg, df, keys, signals>>
    /\ UNCHANGED <<mainVars, evalVars, scriptVars>>

\* Lines 17-26: one iteration of the loop over the rows of the group.
RowStep ==
    /\ pc = "rows"
    /\ r <= Len(g)
    /\ signals' = signals \o RowSignals(Head(keys), g, r, cfg)
    /\ r' = r + 1
    /\ UNCHANGED <<trades, cfg, pc, df, keys, g>>
    /\ UNCHANGED <<mainVars, evalVars, scriptVars>>

\* Line 17, rows exhausted: back to the loop over the groups.
EndGroup ==
    /\ pc = "rows"
    /\ r > Len(g)
    /\ keys' = Tail(keys)
    /\ pc' = "groups"
    /\ UNCHANGED <<trades, cfg, df, g, r, signals>>
    /\ UNCHANGED <<mainVars, evalVars, scriptVars>>

\* Line 27: return pd.DataFrame(signals).
Return ==
    /\ pc = "groups"
    /\ keys = <<>>
    /\ pc' = "done"
    /\ UNCHANGED <<trades, cfg, df, keys, g, r, signals>>
    /\ UNCHANGED <<mainVars, evalVars, scriptVars>>

Next == Call \/ NextGroup \/ RowStep \/ EndGroup \/ Return

Spec == Init /\ [][Next]_vars

\* The run computes what the function computes.
RunIsFunction == pc = "done" => signals = first_cross_events(trades, cfg)

(***************************************************************************)
(* The vocabulary of the claims, stated over the input frame `trades`.     *)
(***************************************************************************)
Events == 1..Len(trades)

\* The event's filing_dt is a timestamp.
Dated(i) == trades[i].filing_dt.kind = "val"

\* The filing day of a dated event.
EvTime(i) == trades[i].filing_dt.v

\* The events windows are taken over: dated, with an amount cell, and not a
\* scheduled-plan transaction when those are excluded.
RetainedEvents ==
    {i \in Events :
        /\ Dated(i)
        /\ trades[i].amount_usd.kind # "na"
        /\ cfg.exclude_10b5 => ~trades[i].tenb5}

EventsOf(sym) == {i \in RetainedEvents : trades[i].symbol = sym}

\* The amount an event adds to a total: nothing when it is not a number.
EvAmount(i) ==
    IF trades[i].amount_usd.kind = "val" THEN trades[i].amount_usd.v ELSE 0

\* The closed window [t - window_days, t] and the half-open [t - window_days, t).
ClosedWindow(sym, t) ==
    {i \in EventsOf(sym) : t - cfg.window_days <= EvTime(i) /\ EvTime(i) <= t}

OpenWindow(sym, t) ==
    {i \in EventsOf(sym) : t - cfg.window_days <= EvTime(i) /\ EvTime(i) < t}

DistinctOwners(S) == Cardinality({trades[i].owner : i \in S})

RECURSIVE TotalAmount(_)
TotalAmount(S) ==
    IF S = {} THEN 0
    ELSE LET i == CHOOSE k \in S : TRUE IN EvAmount(i) + TotalAmount(S \ {i})

\* The threshold conjunction over a set of events.
Satisfies(S) ==
    DistinctOwners(S) >= cfg.min_owners /\ TotalAmount(S) >= cfg.min_usd

\* The symbol crosses at time t.
Crosses(sym, t) ==
    Satisfies(ClosedWindow(sym, t)) /\ ~Satisfies(OpenWindow(sym, t))

AllSymbols == {trades[i].symbol : i \in Events}
AllTimes   == {EvTime(i) : i \in RetainedEvents}

\* The positions of `signals` holding a signal of sym at time t.
SignalsAt(sym, t) ==
    {p \in 1..Len(signals) : signals[p].symbol = sym /\ signals[p].t0 = t}

IsScenario == trades \in ScenarioFrames /\ cfg = ScenarioConfig

(***************************************************************************)
(* C1. first_cross_events emits a signal for an event of symbol S at time  *)
(* t if and only if the closed window [t - window_days, t] over S's        *)
(* retained events has at least min_owners distinct owners and at least    *)
(* min_usd in total while the window [t - window_days, t) does not; the    *)
(* signal carries the closed window's owner count and total.  On the       *)
(* scenario A1 200 at day 0, A2 150 at day 3, A3 100 at day 10 (window 14, *)
(* 3 owners, 300) the output is the one signal at day 10, 3 owners, 450.   *)
(***************************************************************************)
C1_FirstCrossRule ==
    pc = "done" =>
        /\ \A sym \in AllSymbols, t \in AllTimes :
              /\ Cardinality(SignalsAt(sym, t)) =
                    IF Crosses(sym, t)
                    THEN Cardinality({i \in EventsOf(sym) : EvTime(i) = t})
                    ELSE 0
              /\ \A p \in SignalsAt(sym, t) :
                    /\ signals[p].owners_count =
                          DistinctOwners(ClosedWindow(sym, t))
                    /\ signals[p].total_usd = TotalAmount(ClosedWindow(sym, t))
        /\ \A p \in 1..Len(signals) :
              signals[p].symbol \in AllSymbols /\ signals[p].t0 \in AllTimes
        /\ IsScenario =>
              signals = << [symbol |-> "ABC", t0 |-> 10,
                            owners_count |-> 3, total_usd |-> 450] >>

\* The scenario has run and its signal at day 10 is out.
C1_Witness ==
    pc = "done" /\ IsScenario /\ Len(signals) = 1 /\ signals[1].t0 = 10

(***************************************************************************)
(* Runs of events.  Two signals of one symbol lie in the same run of       *)
(* events satisfying the current-window test when no retained event of     *)
(* the symbol strictly between their times fails that test (the events at  *)
(* the signals' own times satisfy it, having signalled).                   *)
(***************************************************************************)
SameRun(sym, t1, t2) ==
    \A i \in EventsOf(sym) :
        t1 < EvTime(i) /\ EvTime(i) < t2 =>
            Satisfies(ClosedWindow(sym, EvTime(i)))

\* The times of the signals emitted for sym.
SignalTimes(sym) ==
    {signals[p].t0 : p \in {q \in 1..Len(signals) : signals[q].symbol = sym}}

(***************************************************************************)
(* C2, as claimed.  Within any maximal run of time-consecutive events of a *)
(* symbol at each of which the current-window test holds, at most one      *)
(* signal is emitted (signals told apart by their event_time).             *)
(***************************************************************************)
C2_OneSignalPerRun ==
    pc = "done" =>
        \A sym \in AllSymbols :
            \A t1, t2 \in SignalTimes(sym) :
                t1 < t2 => ~SameRun(sym, t1, t2)

(***************************************************************************)
(* C2, amended.  Within such a run a second signal time t2 after a signal  *)
(* time t1 occurs only when an event has aged out of the window: some      *)
(* retained event of the symbol lies in [t1 - window_days,                 *)
(* t2 - window_days), inside the window at t1 and before the window at t2. *)
(* (Amounts are not negative.)                                             *)
(***************************************************************************)
C2_SecondSignalNeedsAgedOutEvent ==
    pc = "done" =>
        \A sym \in AllSymbols :
            \A t1, t2 \in SignalTimes(sym) :
                t1 < t2 =>
                    \E i \in EventsOf(sym) :
                        /\ t1 - cfg.window_days <= EvTime(i)
                        /\ EvTime(i) < t2 - cfg.window_days

\* Two signal times of one symbol inside one run.
C2_Witness ==
    /\ pc = "done"
    /\ \E sym \in AllSymbols :
          \E t1, t2 \in SignalTimes(sym) : t1 < t2 /\ SameRun(sym, t1, t2)

(***************************************************************************)
(* C3, as claimed.  A signal is created exactly once per qualifying        *)
(* transition: the output never holds two signals with the same symbol and *)
(* the same event_time, also when several retained events of the symbol    *)
(* share that event_time.                                                  *)
(***************************************************************************)
C3_NoDuplicateSignal ==
    pc = "done" =>
        \A p, q \in 1..Len(signals) :
            signals[p].symbol = signals[q].symbol /\ signals[p].t0 = signals[q].t0
                => p = q

(***************************************************************************)
(* C4.  Window boundaries.  While the loop is at a reference row of time   *)
(* t, an event of the same symbol at exactly t - window_days is in the     *)
(* current window w, an event earlier than t - window_days is not, and an  *)
(* event at exactly t is in w but not in the previous window w_prev.       *)
(* Windows are compared by the frame index labels of the rows selected.    *)
(***************************************************************************)
AtRow == pc = "rows" /\ r <= Len(g)

Labels(grp, sel) == {grp[j].idx : j \in sel}

C4_BoundaryInclusive ==
    AtRow =>
        LET t    == g[r].t
            cur  == Labels(g, w(g, t, cfg))
            prev == Labels(g, w_prev(g, t, cfg))
        IN  \A i \in EventsOf(Head(keys)) :
                /\ EvTime(i) = t - cfg.window_days => i \in cur
                /\ EvTime(i) < t - cfg.window_days => i \notin cur /\ i \notin prev
                /\ EvTime(i) = t => i \in cur /\ i \notin prev

\* A reference row with one event exactly on the lower boundary and one
\* event before it.
C4_Witness ==
    /\ AtRow
    /\ \E i, j \in EventsOf(Head(keys)) :
          /\ EvTime(i) = g[r].t - cfg.window_days
          /\ EvTime(j) < g[r].t - cfg.window_days
          /\ g[r].idx \notin {i, j}

(***************************************************************************)
(* C5, as claimed.  Whenever two signals of a symbol have event_times      *)
(* t1 <= t2 with t2 - t1 <= window_days, some event of that symbol with    *)
(* t1 < event_time <= t2 has a previous window that fails the test (a      *)
(* decross between them).                                                  *)
(***************************************************************************)
C5_DecrossBetweenSignals ==
    pc = "done" =>
        \A p, q \in 1..Len(signals) :
            /\ p # q
            /\ signals[p].symbol = signals[q].symbol
            /\ signals[p].t0 <= signals[q].t0
            /\ signals[q].t0 - signals[p].t0 <= cfg.window_days
            => \E i \in EventsOf(signals[p].symbol) :
                  /\ signals[p].t0 < EvTime(i)
                  /\ EvTime(i) <= signals[q].t0
                  /\ ~Satisfies(OpenWindow(signals[p].symbol, EvTime(i)))

(***************************************************************************)
(* C6, as claimed.  The returned signals are sorted ascending by           *)
(* (event_time, symbol), whatever symbols the events belong to.            *)
(***************************************************************************)
C6_SortedByTimeThenSymbol ==
    pc = "done" =>
        \A p, q \in 1..Len(signals) :
            p < q =>
                \/ signals[p].t0 < signals[q].t0
                \/ /\ signals[p].t0 = signals[q].t0
                   /\ SymOrd(signals[p].symbol) <= SymOrd(signals[q].symbol)

(***************************************************************************)
(* C6, amended.  The returned signals are sorted ascending by              *)
(* (symbol, event_time): all signals of a symbol are adjacent, symbols in  *)
(* ascending order, and within a symbol the event_times do not decrease.   *)
(***************************************************************************)
C6_SortedBySymbolThenTime ==
    pc = "done" =>
        \A p, q \in 1..Len(signals) :
            p < q =>
                \/ SymOrd(signals[p].symbol) < SymOrd(signals[q].symbol)
                \/ /\ signals[p].symbol = signals[q].symbol
                   /\ signals[p].t0 <= signals[q].t0

\* Signals of two symbols, the later one first in the output.
C6_Witness ==
    /\ pc = "done"
    /\ \E p, q \in 1..Len(signals) :
          /\ p < q
          /\ signals[p].symbol # signals[q].symbol
          /\ signals[p].t0 > signals[q].t0

(***************************************************************************)
(* Frames derived from the input frame, for the claims that compare the    *)
(* output on two inputs.                                                   *)
(***************************************************************************)
\* The rows of the frame in the order p.
Permuted(frame, p) == [i \in 1..Len(frame) |-> frame[p[i]]]

\* The rows of the frame that belong to sym, in their order.
RECURSIVE OnlySymbol(_, _)
OnlySymbol(frame, sym) ==
    IF frame = <<>> THEN <<>>
    ELSE LET rest == OnlySymbol(SubSeq(frame, 1, Len(frame) - 1), sym)
             x    == frame[Len(frame)]
         IN  IF x.symbol = sym THEN Append(rest, x) ELSE rest

IsUnflagged(x) == ~x.tenb5
IsDated(x)     == x.filing_dt.kind = "val"

\* The frame without its scheduled-plan rows; with their flags cleared.
WithoutFlagged(frame) == SelectSeq(frame, IsUnflagged)
FlagsCleared(frame) ==
    [i \in 1..Len(frame) |-> [frame[i] EXCEPT !.tenb5 = FALSE]]

\* The frame without the rows that have no filing timestamp; with those
\* rows dated by their txn_date instead.
WithoutUndated(frame) == SelectSeq(frame, IsDated)
DatedByTxn(frame) ==
    [i \in 1..Len(frame) |->
        IF IsDated(frame[i]) THEN frame[i]
        ELSE [frame[i] EXCEPT !.filing_dt = Val(frame[i].txn_date)]]

C8_SymbolIndependent ==
    pc = "done" =>
        \A sym \in AllSymbols :
            OnlySymbol(signals, sym) =
                first_cross_events(OnlySymbol(trades, sym), cfg)

\* A symbol signalled while another symbol had an event inside that window.
C8_Witness ==
    /\ pc = "done"
    /\ \E p \in 1..Len(signals) :
          \E i \in RetainedEvents :
              /\ trades[i].symbol # signals[p].symbol
              /\ signals[p].t0 - cfg.window_days <= EvTime(i)
              /\ EvTime(i) <= signals[p].t0

(***************************************************************************)
(* C9.  With exclude_10b5 true an event flagged as a scheduled-plan        *)
(* transaction is in no window and is the reference event of no signal:    *)
(* no group holds it and the output is the output without those events.    *)
(* With exclude_10b5 false the output is the output with the flags         *)
(* cleared.                                                                *)
(***************************************************************************)
C9_ScheduledPlanExcluded ==
    /\ pc = "rows" /\ cfg.exclude_10b5 =>
          \A j \in 1..Len(g) : ~trades[g[j].idx].tenb5
    /\ pc = "done" /\ cfg.exclude_10b5 =>
          signals = first_cross_events(WithoutFlagged(trades), cfg)
    /\ pc = "done" /\ ~cfg.exclude_10b5 =>
          signals = first_cross_events(FlagsCleared(trades), cfg)

\* Signals came out, and a flagged event was excluded that would have
\* changed them.
C9_Witness ==
    /\ pc = "done"
    /\ cfg.exclude_10b5
    /\ signals # <<>>
    /\ \E i \in Events : trades[i].tenb5
    /\ signals # first_cross_events(FlagsCleared(trades), cfg)

(***************************************************************************)
(* C10.  One time field only: every row the loop sees is windowed by its   *)
(* filing_dt, an event whose filing_dt is missing or unparseable is in no  *)
(* group, and the output is the output without those events (they are not  *)
(* windowed by their txn_date).                                            *)
(***************************************************************************)
C10_FilingTimeOnly ==
    /\ pc = "rows" =>
          \A j \in 1..Len(g) : Dated(g[j].idx) /\ g[j].t = EvTime(g[j].idx)
    /\ pc = "done" =>
          signals = first_cross_events(WithoutUndated(trades), cfg)

\* Signals came out, and an event without a filing timestamp was left out
\* whose txn_date would have changed them.
C10_Witness ==
    /\ pc = "done"
    /\ signals # <<>>
    /\ \E i \in Events : ~Dated(i)
    /\ signals # first_cross_events(DatedByTxn(trades), cfg)

(***************************************************************************)
(* backtest/evaluate.py.                                                   *)
(* Session dates and signal times are whole days (UTC).  Prices are whole  *)
(* numbers of a price unit and returns are exact fractions n/d in lowest   *)
(* terms with d > 0.                                                       *)
(***************************************************************************)
\* What next_trading_open returns when the series is exhausted.
None == -1

\* The greatest common divisor of a >= 0 and b >= 0.
RECURSIVE GCD(_, _)
GCD(a, b) == IF b = 0 THEN a ELSE GCD(b, a % b)

\* np.nan as a return, and the return n/d (d > 0) in lowest terms.
NaNRet == [nan |-> TRUE, n |-> 0, d |-> 1]
Frac(n, d) ==
    LET c == GCD(IF n < 0 THEN 0 - n ELSE n, d)
    IN  [nan |-> FALSE, n |-> n \div c, d |-> d \div c]

\* Float arithmetic on returns: a - b, and nan - b = nan.
FracSub(a, b) ==
    IF a.nan \/ b.nan THEN NaNRet
    ELSE Frac(a.n * b.d - b.n * a.d, a.d * b.d)

\* Equality and sign of the numbers two returns stand for.
FracEq(a, b) ==
    IF a.nan \/ b.nan THEN FALSE ELSE a.n * b.d = b.n * a.d
FracPos(a) == ~a.nan /\ a.n > 0

\* One row of a downloaded price frame; a cell the download has no value
\* for is NaN.
Session(d, o, c) == [date |-> d, Open |-> o, AdjClose |-> c]

\* px.dropna(): the rows without a NaN cell.
dropna(px) == SelectSeq(px, LAMBDA s : s.Open # NaN /\ s.AdjClose # NaN)

\* np.searchsorted(days, d, side="right") on the ascending dates of px: the
\* number of sessions dated d or earlier.
searchsorted_right(px, d) == Cardinality({i \in 1..Len(px) : px[i].date <= d})

\* next_trading_open that never gives up: the last session when the series
\* is exhausted.
next_trading_open_clamped(px, t0) ==
    IF searchsorted_right(px, t0) >= Len(px) THEN px[Len(px)].date
    ELSE px[searchsorted_right(px, t0) + 1].date

\* next_trading_open(px, t0): the index label (the date) of the session at
\* the 0-based position idx, None when idx is past the end.
next_trading_open(px, t0) ==
    IF searchsorted_right(px, t0) >= Len(px) THEN None
    ELSE px[searchsorted_right(px, t0) + 1].date

\* px.index.get_loc(label): the 0-based position of the session dated label.
get_loc(px, label) == (CHOOSE i \in 1..Len(px) : px[i].date = label) - 1

\* px.index[i] resolves: 0-based, a negative i counts from the end, and
\* anything else raises IndexError.
Resolves(px, i) == -Len(px) <= i /\ i < Len(px)

\* The row at px.index[i].
RowAt(px, i) == IF i >= 0 THEN px[i + 1] ELSE px[Len(px) + i + 1]

\* returns_at raises: a target position below -len(px).
Raises(px, entry_idx, horizons) ==
    \E j \in 1..Len(horizons) :
        LET tgt_pos == get_loc(px, entry_idx) + horizons[j]
        IN  tgt_pos < Len(px) /\ ~Resolves(px, tgt_pos)

\* One horizon of returns_at, with 0.0 where the series ends.
ret_h_zero_fill(px, entry_idx, h) ==
    LET entry_open == px[get_loc(px, entry_idx) + 1].Open
        tgt_pos    == get_loc(px, entry_idx) + h
    IN  IF tgt_pos >= Len(px) THEN Frac(0, 1)
        ELSE FracSub(Frac(RowAt(px, tgt_pos).AdjClose, entry_open), Frac(1, 1))

\* One horizon of returns_at, with the exit session's open as exit price.
ret_h_exit_open(px, entry_idx, h) ==
    LET entry_open == px[get_loc(px, entry_idx) + 1].Open
        tgt_pos    == get_loc(px, entry_idx) + h
    IN  IF tgt_pos >= Len(px) THEN NaNRet
        ELSE FracSub(Frac(RowAt(px, tgt_pos).Open, entry_open), Frac(1, 1))

\* One horizon of returns_at: out[f"ret_{h}d"].
ret_h(px, entry_idx, h) ==
    LET entry_open == px[get_loc(px, entry_idx) + 1].Open
        tgt_pos    == get_loc(px, entry_idx) + h
    IN  IF tgt_pos >= Len(px) THEN NaNRet
        ELSE FracSub(Frac(RowAt(px, tgt_pos).AdjClose, entry_open), Frac(1, 1))

\* The set of the horizons of a list: the keys ret_{h}d.
HorizonSet(horizons) == {horizons[j] : j \in 1..Len(horizons)}

\* returns_at(px, entry_idx, horizons), when it does not raise.
returns_at(px, entry_idx, horizons) ==
    [h \in HorizonSet(horizons) |-> ret_h(px, entry_idx, h)]

\* main, line 41: the tickers of the signals.
Tickers(sg) == {sg[i].symbol : i \in 1..Len(sg)}

\* main, lines 47-48: the price frame of a symbol, rows with a NaN cell
\* dropped.  A download of one ticker is that ticker's frame.
Px(dl, tickers, sym) ==
    dropna(IF Cardinality(tickers) = 1
           THEN dl[CHOOSE t \in tickers : TRUE]
           ELSE dl[sym])

\* main, line 52-53: the result record of a signal.
Result(s, px, entry_idx, horizons) ==
    [symbol |-> s.symbol, t0 |-> s.t0, entry_idx |-> entry_idx,
     owners_count |-> s.owners_count, total_usd |-> s.total_usd,
     ret |-> returns_at(px, entry_idx, horizons)]

\* main, lines 60-62: the columns ret_{h}d_net of a result row.
AddNet(rw, a) ==
    [symbol |-> rw.symbol, t0 |-> rw.t0, entry_idx |-> rw.entry_idx,
     owners_count |-> rw.owners_count, total_usd |-> rw.total_usd,
     ret |-> rw.ret,
     net |-> [h \in HorizonSet(a.horizons) |->
                 FracSub(rw.ret[h], Frac(a.cost_bps, 10000))]]

\* ev[col].dropna() with NaN counted as a value: every row.
Valid_keep_nan(frame, h) == 1..Len(frame)

\* main, line 67: valid = ev[col].dropna(), as the rows it keeps.
Valid(frame, h) == {i \in 1..Len(frame) : ~frame[i].net[h].nan}

\* main, lines 68-70: the summary line of a horizon: "no data", or the
\* sample size n and the number of values above 0 (hit% is hits / n).
SummaryLine(frame, h) ==
    IF Valid(frame, h) = {}
    THEN [h |-> h, nodata |-> TRUE, n |-> 0, hits |-> 0]
    ELSE [h |-> h, nodata |-> FALSE, n |-> Cardinality(Valid(frame, h)),
          hits |-> Cardinality({i \in Valid(frame, h) :
                                   FracPos(frame[i].net[h])})]

(***************************************************************************)
(* The inputs of evaluate.main.                                            *)
(***************************************************************************)
Signal(sym, t) == [symbol |-> sym, t0 |-> t, owners_count |-> 3,
                   total_usd |-> 450]

\* Signals of A on the days around and on the sessions, a signal of B.
SignalPool ==
    {Signal("A", t) : t \in 0..(MaxDay + 1)} \cup {Signal("B", 1)}

\* The files of signals: up to MaxSig signals in any order.
RECURSIVE SignalFiles(_)
SignalFiles(n) ==
    IF n = 0 THEN {<<>>}
    ELSE {<<>>} \cup
         {Append(x[1], x[2]) : x \in SignalFiles(n - 1) \X SignalPool}

\* The prices of the session of day d.  The download has no adjusted close
\* for day 0.
OpenOf(d)     == 10 + d
AdjCloseOf(d) == IF d = 0 THEN NaN ELSE IF d % 3 = 0 THEN 9 ELSE 11 + d

\* The sessions of a set of days, ascending by date as a price frame is.
RECURSIVE Ascending(_)
Ascending(D) ==
    IF D = {} THEN <<>>
    ELSE LET d == CHOOSE x \in D : \A y \in D : x <= y
         IN  <<Session(d, OpenOf(d), AdjCloseOf(d))>> \o Ascending(D \ {d})

\* What a download can hold for ticker A: any set of the days 0..MaxDay.
SeriesA == {Ascending(D) : D \in SUBSET (0..MaxDay)}

\* What a download can hold for ticker B: no prices at all (one row of NaN)
\* or two sessions.
SeriesB == {<<Session(1, NaN, NaN)>>, Ascending({1, 2})}

\* The price series of the specification's scenario: Day10 open 10 adjusted
\* close 10.5, Day11 11 and 11, Day15 12 and 12 (in halves).
ScenarioSeries ==
    <<Session(10, 20, 21), Session(11, 22, 22), Session(15, 24, 24)>>

SeriesOf(sym) ==
    CASE sym = "A" -> SeriesA
      [] sym = "B" -> SeriesB
      [] OTHER     -> {ScenarioSeries}

\* What yf.download can return for a set of tickers.
Downloads(tickers) ==
    {dl \in [tickers -> SeriesA \cup SeriesB \cup {ScenarioSeries}] :
        \A t \in tickers : dl[t] \in SeriesOf(t)}

\* --horizons (unvalidated integers) and --cost_bps.
HorizonLists ==
    { <<1, 2>>, <<-1, 0, 1>>, <<-2, 1>>, <<2, MaxDay>>,
      <<0 - (MaxDay + 1), 1>> }

EvalArgs ==
    {[horizons |-> hs, cost_bps |-> c] : hs \in HorizonLists, c \in {0, 20}}

ScenarioSignals == <<Signal("ABC", 10)>>
ScenarioArgs    == [horizons |-> <<1, 10>>, cost_bps |-> 0]

\* first_cross_events and build_signals.main are not running.
BuildIdle ==
    /\ trades = <<>>
    /\ cfg = <<>>
    /\ pc = "idle"
    /\ df = <<>>
    /\ keys = <<>>
    /\ g = <<>>
    /\ r = 0
    /\ signals = <<>>
    /\ out_file = NoFile
    /\ runs = 0

(***************************************************************************)
(* evaluate.main as a run.                                                 *)
(***************************************************************************)
EvalInit ==
    /\ BuildIdle
    /\ ScriptsIdle
    /\ \/ sig \in SignalFiles(MaxSig) /\ args \in EvalArgs
       \/ sig = ScenarioSignals /\ args = ScenarioArgs
    /\ data = <<>>
    /\ epc = "start"
    /\ at = 0
    /\ rows = <<>>
    /\ ev = <<>>
    /\ summary = <<>>
    /\ report = NoFile

\* The price frame of the signal the loop is at.
PxAt == Px(data, Tickers(sig), sig[at].symbol)

\* Lines 36-38: no signals in the file; main returns.
NoSignals ==
    /\ epc = "start"
    /\ sig = <<>>
    /\ epc' = "done"
    /\ UNCHANGED <<sig, data, args, at, rows, ev, summary, report>>
    /\ UNCHANGED <<fceVars, mainVars, scriptVars>>

\* Lines 39-44: the prices of the tickers are downloaded; rows = [].
Download ==
    /\ epc = "start"
    /\ sig # <<>>
    /\ data' \in Downloads(Tickers(sig))
    /\ rows' = <<>>
    /\ at' = 1
    /\ epc' = "loop"
    /\ UNCHANGED <<sig, args, ev, summary, report>>
    /\ UNCHANGED <<fceVars, mainVars, scriptVars>>

\* Line 49: the symbol has no price row; continue.
SkipNoData ==
    /\ epc = "loop"
    /\ at <= Len(sig)
    /\ PxAt = <<>>
    /\ at' = at + 1
    /\ UNCHANGED <<sig, data, args, epc, rows, ev, summary, report>>
    /\ UNCHANGED <<fceVars, mainVars, scriptVars>>

\* Lines 50-51: next_trading_open returns None; continue.
SkipNoSession ==
    /\ epc = "loop"
    /\ at <= Len(sig)
    /\ PxAt # <<>>
    /\ next_trading_open(PxAt, sig[at].t0) = None
    /\ at' = at + 1
    /\ UNCHANGED <<sig, data, args, epc, rows, ev, summary, report>>
    /\ UNCHANGED <<fceVars, mainVars, scriptVars>>

\* Lines 50-54: the signal has an entry session; its result is appended.
Evaluate ==
    /\ epc = "loop"
    /\ at <= Len(sig)
    /\ PxAt # <<>>
    /\ next_trading_open(PxAt, sig[at].t0) # None
    /\ ~Raises(PxAt, next_trading_open(PxAt, sig[at].t0), args.horizons)
    /\ rows' = Append(rows, Result(sig[at], PxAt,
                   next_trading_open(PxAt, sig[at].t0), args.horizons))
    /\ at' = at + 1
    /\ UNCHANGED <<sig, data, args, epc, ev, summary, report>>
    /\ UNCHANGED <<fceVars, mainVars, scriptVars>>

\* Line 53: returns_at raises IndexError (line 23); main ends with it.
RaiseIndexError ==
    /\ epc = "loop"
    /\ at <= Len(sig)
    /\ PxAt # <<>>
    /\ next_trading_open(PxAt, sig[at].t0) # None
    /\ Raises(PxAt, next_trading_open(PxAt, sig[at].t0), args.horizons)
    /\ epc' = "raised"
    /\ UNCHANGED <<sig, data, args, at, rows, ev, summary, report>>
    /\ UNCHANGED <<fceVars, mainVars, scriptVars>>

\* Lines 56-58: no result row; main returns and writes nothing.
NoEvaluable ==
    /\ epc = "loop"
    /\ at > Len(sig)
    /\ rows = <<>>
    /\ epc' = "done"
    /\ UNCHANGED <<sig, data, args, at, rows, ev, summary, report>>
    /\ UNCHANGED <<fceVars, mainVars, scriptVars>>

\* Lines 56-73: the net columns, the summary lines, the report file.
Summarise ==
    /\ epc = "loop"
    /\ at > Len(sig)
    /\ rows # <<>>
    /\ ev' = [i \in 1..Len(rows) |-> AddNet(rows[i], args)]
    /\ summary' = [j \in 1..Len(args.horizons) |->
                      SummaryLine(ev', args.horizons[j])]
    /\ report' = File(ev')
    /\ epc' = "done"
    /\ UNCHANGED <<sig, data, args, at, rows>>
    /\ UNCHANGED <<fceVars, mainVars, scriptVars>>

EvalNext ==
    \/ NoSignals \/ Download \/ SkipNoData \/ SkipNoSession \/ Evaluate
    \/ RaiseIndexError \/ NoEvaluable \/ Summarise

SpecEval == EvalInit /\ [][EvalNext]_vars

(***************************************************************************)
(* build_signals.main as a run: the arguments are parsed, the trades are   *)
(* read, first_cross_events runs (the actions Call .. Return) and the      *)
(* signals are written.  Runs follow each other with the same arguments    *)
(* and the same args.out.                                                  *)
(***************************************************************************)
\* Threshold arguments the specification calls invalid: a window that is
\* not positive, min_owners that is not positive, a negative min_usd.
\* argparse accepts every one of them (type=int, type=float).
InvalidConfigs ==
    { Config(0, 1, 2, TRUE), Config(-1, 1, 2, TRUE), Config(1, 0, 2, TRUE),
      Config(1, 1, -1, TRUE), Config(1, 0, -1, FALSE) }

IsValidConfig(c) == c.window_days > 0 /\ c.min_owners > 0 /\ c.min_usd >= 0

\* The trades files of the runs of main: the frames of no row or one row.
MainFrames == {<<>>} \cup {<<RowOfKind(kt[1], kt[2])>> : kt \in RowPicks}

BuildInit ==
    /\ trades \in MainFrames
    /\ cfg \in Configs \cup InvalidConfigs
    /\ pc = "start"
    /\ df = <<>>
    /\ keys = <<>>
    /\ g = <<>>
    /\ r = 0
    /\ signals = <<>>
    /\ out_file = NoFile
    /\ runs = 1
    /\ EvalIdle
    /\ ScriptsIdle

\* Lines 47-48: sig.empty; "No signals." is printed, nothing is written.
SkipWrite ==
    /\ pc = "done"
    /\ signals = <<>>
    /\ pc' = "exit"
    /\ UNCHANGED <<trades, cfg, df, keys, g, r, signals, mainVars, evalVars,
                   scriptVars>>

\* Lines 49-52: sig.to_parquet(args.out).
WriteSignals ==
    /\ pc = "done"
    /\ signals # <<>>
    /\ out_file' = File(signals)
    /\ pc' = "exit"
    /\ UNCHANGED <<trades, cfg, df, keys, g, r, signals, runs, evalVars,
                   scriptVars>>

\* main is run again, on the trades file of that day.
RunAgain ==
    /\ pc = "exit"
    /\ runs < MaxRuns
    /\ trades' \in MainFrames
    /\ runs' = runs + 1
    /\ pc' = "start"
    /\ df' = <<>>
    /\ keys' = <<>>
    /\ g' = <<>>
    /\ r' = 0
    /\ signals' = <<>>
    /\ UNCHANGED <<cfg, out_file, evalVars, scriptVars>>

BuildNext ==
    \/ Call \/ NextGroup \/ RowStep \/ EndGroup \/ Return
    \/ SkipWrite \/ WriteSignals \/ RunAgain

SpecBuild == BuildInit /\ [][BuildNext]_vars

(***************************************************************************)
(* The vocabulary of the claims about evaluate.py, stated over the signals *)
(* read, the prices downloaded and the records written.                    *)
(***************************************************************************)
\* The tradable sessions of a symbol: the rows of its price series.
SessionsOf(sym) == Px(data, Tickers(sig), sym)

\* The dates of a series, and its last date.
DatesOf(px)  == {px[i].date : i \in 1..Len(px)}
LastDate(px) == px[Len(px)].date

\* The loop of evaluate.main is at a signal whose symbol has prices.
AtSignal == epc = "loop" /\ at <= Len(sig) /\ PxAt # <<>>

\* The signals that have price data and a session after their date.
Evaluable(i) ==
    /\ SessionsOf(sig[i].symbol) # <<>>
    /\ sig[i].t0 < LastDate(SessionsOf(sig[i].symbol))

EvaluableSignals == SelectSeq([i \in 1..Len(sig) |-> [i |-> i]],
                              LAMBDA x : Evaluable(x.i))

\* The records of the report file; none when no file is written.
Records == report.records

\* The 0-based position of the entry session of a record in its series,
\* the length of that series and the configured horizons.
EntryPos(rec)  == get_loc(SessionsOf(rec.symbol), rec.entry_idx)
SeriesLen(rec) == Len(SessionsOf(rec.symbol))
Horizons       == HorizonSet(args.horizons)

\* The session h positions after the entry session of a record exists.
HasSessionAfter(rec, h) ==
    0 <= EntryPos(rec) + h /\ EntryPos(rec) + h < SeriesLen(rec)
SessionAfter(rec, h) == SessionsOf(rec.symbol)[EntryPos(rec) + h + 1]
EntrySession(rec)    == SessionsOf(rec.symbol)[EntryPos(rec) + 1]

\* evaluate.main has ended normally.
EvalDone == epc = "done"

(***************************************************************************)
(* C11. Entry-session alignment: the entry session of every result is the  *)
(* first session of the symbol's series dated on or after the signal's     *)
(* date; a signal dated on a session enters on that session.               *)
(***************************************************************************)
C11_EntryOnOrAfterSignal ==
    \A i \in 1..Len(rows) :
        LET px == SessionsOf(rows[i].symbol)
        IN  /\ rows[i].entry_idx \in DatesOf(px)
            /\ rows[i].entry_idx >= rows[i].t0
            /\ \A d \in DatesOf(px) :
                  d >= rows[i].t0 => rows[i].entry_idx <= d

(***************************************************************************)
(* C12. next_trading_open returns None exactly when the signal's date is   *)
(* at or after the last session date of the (non-empty) series; for every  *)
(* earlier date it returns a session of the series.                        *)
(***************************************************************************)
C12_NoneIffAtOrAfterLast ==
    AtSignal =>
        /\ (next_trading_open(PxAt, sig[at].t0) = None)
              <=> (sig[at].t0 >= LastDate(PxAt))
        /\ sig[at].t0 < LastDate(PxAt)
              => next_trading_open(PxAt, sig[at].t0) \in DatesOf(PxAt)

\* The first signal was dated on the last of several sessions and the loop
\* went past it without a result; the second is dated before the last
\* session.
C12_Witness ==
    /\ AtSignal
    /\ at = 2
    /\ rows = <<>>
    /\ Len(SessionsOf(sig[1].symbol)) >= 2
    /\ sig[1].t0 = LastDate(SessionsOf(sig[1].symbol))
    /\ sig[2].t0 < LastDate(PxAt)

(***************************************************************************)
(* C13. Every signal read by evaluate.main is accounted for in its output: *)
(* when main has ended, the number of records written equals the number of *)
(* signals read.                                                           *)
(***************************************************************************)
C13_EverySignalAccounted ==
    EvalDone => Len(Records) = Len(sig)

(***************************************************************************)
(* C14. When main has ended, every evaluable signal has its record, in the *)
(* order read; in every record a horizon whose target position (entry      *)
(* position + h) lies past the end of the series is NaN in ret and in net  *)
(* (not 0), and a horizon whose target session exists has a value in both. *)
(***************************************************************************)
C14_MissingHorizonIsNaN ==
    EvalDone =>
        /\ Len(Records) = Len(EvaluableSignals)
        /\ \A j \in 1..Len(Records) :
              /\ Records[j].symbol = sig[EvaluableSignals[j].i].symbol
              /\ Records[j].t0 = sig[EvaluableSignals[j].i].t0
              /\ \A h \in Horizons :
                    /\ EntryPos(Records[j]) + h >= SeriesLen(Records[j])
                          => /\ Records[j].ret[h] = NaNRet
                             /\ Records[j].net[h] = NaNRet
                             /\ Records[j].ret[h] # Frac(0, 1)
                    /\ HasSessionAfter(Records[j], h)
                          => /\ ~Records[j].ret[h].nan
                             /\ ~Records[j].net[h].nan

\* A record with one horizon past the end of the series and another one
\* computed.
C14_Witness ==
    /\ EvalDone
    /\ \E j \in 1..Len(Records) : \E h1, h2 \in Horizons :
          /\ EntryPos(Records[j]) + h1 >= SeriesLen(Records[j])
          /\ Records[j].ret[h1].nan
          /\ h2 > 0
          /\ HasSessionAfter(Records[j], h2)
          /\ ~Records[j].ret[h2].nan

(***************************************************************************)
(* C15. For every horizon h whose target session exists, the raw return    *)
(* is (adjusted close of the session h positions after the entry session)  *)
(* / (open of the entry session) - 1; every computed net return is the raw *)
(* return - cost_bps/10000; with cost_bps = 0 net equals raw.              *)
(***************************************************************************)
C15_ReturnFormula ==
    EvalDone =>
        \A j \in 1..Len(Records) : \A h \in Horizons :
            LET rec == Records[j]
                raw == rec.ret[h]
                net == rec.net[h]
            IN  /\ HasSessionAfter(rec, h) =>
                      /\ ~raw.nan
                      /\ raw.n * EntrySession(rec).Open =
                            (SessionAfter(rec, h).AdjClose
                                - EntrySession(rec).Open) * raw.d
                /\ ~raw.nan =>
                      /\ ~net.nan
                      /\ net.n * (raw.d * 10000) =
                            (raw.n * 10000 - args.cost_bps * raw.d) * net.d
                /\ (args.cost_bps = 0 /\ ~raw.nan) => FracEq(net, raw)

\* A record with a computed horizon of at least one session, under a cost
\* that is not zero.
C15_Witness ==
    /\ EvalDone
    /\ args.cost_bps # 0
    /\ \E j \in 1..Len(Records) : \E h \in Horizons :
          /\ h >= 1
          /\ HasSessionAfter(Records[j], h)
          /\ ~Records[j].net[h].nan

(***************************************************************************)
(* C16. Monotonic horizon ordering: in every record, every resolved exit   *)
(* session is dated strictly after the entry session, and for resolved     *)
(* horizons h1 < h2 the exit session of h2 is dated strictly after the     *)
(* exit session of h1.                                                     *)
(***************************************************************************)
ExitDate(rec, h) == RowAt(SessionsOf(rec.symbol), EntryPos(rec) + h).date

C16_ExitStrictlyLater ==
    EvalDone =>
        \A j \in 1..Len(Records) : \A h1, h2 \in Horizons :
            LET rec == Records[j]
            IN  /\ ~rec.ret[h1].nan => ExitDate(rec, h1) > rec.entry_idx
                /\ (h1 < h2 /\ ~rec.ret[h1].nan /\ ~rec.ret[h2].nan)
                      => ExitDate(rec, h2) > ExitDate(rec, h1)

(***************************************************************************)
(* C17. The summary line of every horizon is computed over the non-missing *)
(* net values only: n is their number, the hits are those above 0, and a   *)
(* horizon with no non-missing value reports "no data".  No summary is     *)
(* printed when there is no record.                                        *)
(***************************************************************************)
NonMissing(h) == {i \in 1..Len(Records) : ~Records[i].net[h].nan}

C17_SummaryOverNonMissing ==
    EvalDone =>
        IF Records = <<>> THEN summary = <<>>
        ELSE /\ Len(summary) = Len(args.horizons)
             /\ \A j \in 1..Len(summary) :
                   LET h == args.horizons[j]
                   IN  /\ summary[j].h = h
                       /\ summary[j].nodata <=> (NonMissing(h) = {})
                       /\ NonMissing(h) # {} =>
                             /\ summary[j].n = Cardinality(NonMissing(h))
                             /\ summary[j].hits =
                                   Cardinality({i \in NonMissing(h) :
                                                  Records[i].net[h].n > 0})

\* One horizon reports "no data", another counts fewer values than there
\* are records, and a third line has a value that is not a hit.
C17_Witness ==
    /\ EvalDone
    /\ \E j \in 1..Len(summary) : summary[j].nodata
    /\ \E j \in 1..Len(summary) :
          /\ ~summary[j].nodata
          /\ summary[j].n < Len(Records)
          /\ summary[j].hits >= 1

(***************************************************************************)
(* C18. A trade whose amount is unparseable is dropped on its own: it      *)
(* adds to no window's owner count and to no total, so the symbols and     *)
(* times that signal are those of the frame without it.                    *)
(***************************************************************************)
HasAmount(row) == row.amount_usd.kind = "val"

WithoutMalformed(frame) == SelectSeq(frame, HasAmount)

\* The (symbol, event_time) pairs of a sequence of signals.
Crossings(sigs) == {<<sigs[i].symbol, sigs[i].t0>> : i \in 1..Len(sigs)}

C18_MalformedAmountDropped ==
    pc = "done" =>
        Crossings(signals) =
            Crossings(first_cross_events(WithoutMalformed(trades), cfg))

(***************************************************************************)
(* C19. An invalid threshold configuration (window_days <= 0, min_owners   *)
(* <= 0 or min_usd < 0) makes build_signals.main fail before any event is  *)
(* processed: under such a configuration first_cross_events never starts.  *)
(***************************************************************************)
C19_InvalidConfigFailsFast ==
    ~IsValidConfig(cfg) => pc = "start"

(***************************************************************************)
(* C20. Empty input is a valid terminal state: when a run of               *)
(* build_signals.main (under a valid configuration) yields no signal, the  *)
(* signal output after the run holds no signal, not the signals of an      *)
(* earlier run.                                                            *)
(***************************************************************************)
C20_EmptyRunEmptyOutput ==
    (IsValidConfig(cfg) /\ pc = "exit" /\ signals = <<>>)
        => out_file.records = <<>>

(***************************************************************************)
(* C29. Duplicate events do not change detection: a frame that holds an    *)
(* exact duplicate of one of its rows signals at the same symbols and      *)
(* times as the frame without the duplicate.                               *)
(***************************************************************************)
\* The sequence without its j-th element.
WithoutRow(frame, j) ==
    [m \in 1..(Len(frame) - 1) |-> IF m < j THEN frame[m] ELSE frame[m + 1]]

\* The positions of the rows that repeat an earlier row of the frame.
DuplicateRows(frame) ==
    {j \in 1..Len(frame) : \E m \in 1..(j - 1) : frame[m] = frame[j]}

C29_DuplicateChangesNothing ==
    pc = "done" =>
        \A j \in DuplicateRows(trades) :
            Crossings(signals) =
                Crossings(first_cross_events(WithoutRow(trades, j), cfg))

(***************************************************************************)
(* backfill_sec.py: iter_quarters, the quarters main walks from --start    *)
(* to --end.  A date is its year, counted from the first year of the       *)
(* range considered, and its month.                                        *)
(***************************************************************************)
MaxYears == 2

Date(yr, mo) == [year |-> yr, month |-> mo]

Dates == {Date(yr, mo) : yr \in 0..MaxYears, mo \in 1..12}

\* Line 20: def quarter(dt): return (dt.month - 1)//3 + 1
quarter(dt) == ((dt.month - 1) \div 3) + 1

\* Lines 88-93: main parses --start and --end and hands them, unchecked, to
\* iter_quarters.
QuartersInit ==
    /\ BuildIdle /\ EvalIdle
    /\ StoreIdle /\ ScanIdle /\ SellIdle /\ ParseIdle /\ TaseIdle /\ TextIdle
    /\ q_range \in {[start |-> a, end |-> b] : a \in Dates, b \in Dates}
    /\ year = 0
    /\ qtr = 0
    /\ yielded = <<>>
    /\ quarters_pc = "start"

quartersRest ==
    <<fceVars, mainVars, evalVars, storeVars, scanVars, sellVars, parseVars,
      taseVars, textVars>>

\* Line 22: y, q = start.year, quarter(start)
QuartersBegin ==
    /\ quarters_pc = "start"
    /\ year' = q_range.start.year
    /\ qtr' = quarter(q_range.start)
    /\ quarters_pc' = "loop"
    /\ UNCHANGED <<q_range, yielded>>
    /\ UNCHANGED quartersRest

\* Lines 23-25: yield (y, q), and the pair is end's: break.
YieldLast ==
    /\ quarters_pc = "loop"
    /\ year = q_range.end.year /\ qtr = quarter(q_range.end)
    /\ yielded' = Append(yielded, <<year, qtr>>)
    /\ quarters_pc' = "done"
    /\ UNCHANGED <<q_range, year, qtr>>
    /\ UNCHANGED quartersRest

\* Lines 23-27: yield (y, q), the pair is not end's: the next quarter.  The
\* walk is followed up to one year past the range considered.
YieldNext ==
    /\ quarters_pc = "loop"
    /\ ~(year = q_range.end.year /\ qtr = quarter(q_range.end))
    /\ year <= MaxYears
    /\ yielded' = Append(yielded, <<year, qtr>>)
    /\ qtr' = IF qtr + 1 = 5 THEN 1 ELSE qtr + 1
    /\ year' = IF qtr + 1 = 5 THEN year + 1 ELSE year
    /\ UNCHANGED <<q_range, quarters_pc>>
    /\ UNCHANGED quartersRest

QuartersNext == QuartersBegin \/ YieldLast \/ YieldNext

SpecQuarters == QuartersInit /\ [][QuartersNext]_vars

(***************************************************************************)
(* C26. iter_quarters(start, end) yields the quarters from start's through *)
(* end's, in ascending order, each once: at every moment the pairs yielded *)
(* so far are the first quarters of that range, none past end's quarter.   *)
(***************************************************************************)
\* The position of a (year, quarter) pair in the order of quarters.
QuarterIndex(yr, qu) == 4 * yr + qu

StartIndex == QuarterIndex(q_range.start.year, quarter(q_range.start))
EndIndex == QuarterIndex(q_range.end.year, quarter(q_range.end))

C26_QuartersStartThroughEnd ==
    quarters_pc \in {"loop", "done"} =>
        /\ \A m \in 1..Len(yielded) :
              /\ QuarterIndex(yielded[m][1], yielded[m][2]) = StartIndex + m - 1
              /\ QuarterIndex(yielded[m][1], yielded[m][2]) <= EndIndex
              /\ yielded[m][2] \in 1..4
        /\ quarters_pc = "done" => Len(yielded) = EndIndex - StartIndex + 1

(***************************************************************************)
(* tase_scan.py, Mode B: main loads the last probed id from the state      *)
(* file, probes the ids after it and saves the last id probed.             *)
(***************************************************************************)
MaxAhead == 3
MaxTaseRuns == 3

\* LAST_ID_SEED = int(os.getenv("TASE_LAST_ID", "1702000"))
LAST_ID_SEED == 1702000

\* SCAN_AHEAD, read from the environment when a run starts.
ScanAheads == 1..MaxAhead

\* The state file holding str(last_id); a file without a record holds text
\* that int() rejects, as a file truncated by a failed write does.
StateFile(last_id) == File(<<last_id>>)
Unreadable == File(<<>>)

\* Lines 246-252: load_state, the seed when the file is absent or unreadable.
load_state(f) ==
    IF f.exists /\ f.records # <<>> THEN f.records[1] ELSE LAST_ID_SEED

\* Lines 271-272: the directory block of id i.
block_start(i) == (i \div 1000) * 1000 + 1
block_end(i) == block_start(i) + 999

\* Lines 269-286: the probes of mode_b_probe(start_id, ahead), in order.
Probes(start_id, ahead) ==
    [m \in 1..ahead |->
        [id |-> start_id + m,
         block_start |-> block_start(start_id + m),
         block_end |-> block_end(start_id + m)]]

\* Lines 267, 285: new_last, the last id of the loop.
new_last(start_id, ahead) ==
    IF ahead >= 1 THEN start_id + ahead ELSE start_id

\* Lines 254-259: save_state; a failed write is reported and swallowed, and
\* leaves the file as it was or, failing after open(..., "w"), truncated.
SaveOutcomes(f, last_id) ==
    {StateFile(last_id), f, Unreadable}

\* The first run starts without a state file, or from one left by earlier
\* runs, three ids before the end of a directory block.
TaseInit ==
    /\ BuildIdle /\ EvalIdle
    /\ StoreIdle /\ ScanIdle /\ SellIdle /\ ParseIdle /\ TextIdle
    /\ QuartersIdle
    /\ state_file \in {NoFile, StateFile(LAST_ID_SEED + 997)}
    /\ probed = <<>>
    /\ tase_runs = 0

\* Lines 306-311: one Mode B run of main (load_state, mode_b_probe,
\* save_state).
ModeBRun ==
    /\ tase_runs < MaxTaseRuns
    /\ \E ahead \in ScanAheads :
         LET last == load_state(state_file)
         IN  /\ probed' = probed \o Probes(last, ahead)
             /\ state_file' \in SaveOutcomes(state_file, new_last(last, ahead))
    /\ tase_runs' = tase_runs + 1
    /\ UNCHANGED <<fceVars, mainVars, evalVars, storeVars, scanVars, sellVars,
                   parseVars, textVars, quarterVars>>

TaseNext == ModeBRun

SpecTase == TaseInit /\ [][TaseNext]_vars

(***************************************************************************)
(* C24. Over any sequence of Mode B runs the probed ids form one           *)
(* contiguous ascending range: each probe is of the id after the one       *)
(* before it, so no id is probed twice and none is skipped.                *)
(***************************************************************************)
C24_ProbedOnceContiguous ==
    \A m \in 2..Len(probed) : probed[m].id = probed[m - 1].id + 1

(***************************************************************************)
(* C25. The directory block used for a probed id contains the id, spans    *)
(* 1000 ids and starts at a multiple of 1000 plus one.                     *)
(***************************************************************************)
C25_BlockContainsId ==
    \A m \in 1..Len(probed) :
        /\ probed[m].block_start <= probed[m].id
        /\ probed[m].id <= probed[m].block_end
        /\ probed[m].block_end = probed[m].block_start + 999
        /\ probed[m].block_start % 1000 = 1

(***************************************************************************)
(* tase_scan.py: parse_tase_report_text.  A report text is modelled by     *)
(* what the parser looks for in it:                                        *)
(*   sell_word  one of the selling phrases of SELL_MARKERS is in the text  *)
(*   kiton      the word for a decrease is in the text                     *)
(*   change     the line of the change in quantity: "none", written with   *)
(*              single spaces ("single"), or with other white space        *)
(*              ("wide"), which the pattern of line 140 accepts too        *)
(*   sign, qty  the sign character and the digits of that line             *)
(*   price      the price line: "none", or in agorot or in shekels         *)
(***************************************************************************)
MaxQty == 2

Signs == {"none", "hyphen", "minus", "endash"}

ReportTexts ==
    [sell_word : BOOLEAN, kiton : BOOLEAN,
     change : {"none", "single", "wide"}, sign : Signs, qty : 1..MaxQty,
     price : {"none", "agorot", "shekel"}]

\* Line 112: any(marker in text for marker in SELL_MARKERS).  The marker
\* "change in the quantity of securities" is in the text whenever the
\* change line is written with single spaces.
any_marker(text) == text.sell_word \/ text.change = "single"

\* Lines 74-83: normalize_num.  U+2212 and the hyphen give a negative
\* number; the en dash, which the pattern of line 140 also accepts as a
\* sign, is not replaced and the digits after it are read as positive.
normalize_num(sign, digits) ==
    IF sign \in {"hyphen", "minus"} THEN 0 - digits ELSE digits

\* Lines 139-146: change_qty; the sentinel -0.0 compares equal to 0.
change_qty(text) ==
    IF text.change # "none" THEN Val(normalize_num(text.sign, text.qty))
    ELSE IF text.kiton THEN Val(0)
    ELSE Missing

\* Lines 154-160: price_nis, in agorot.
price_nis(text) ==
    IF text.price = "agorot" THEN Val(3)
    ELSE IF text.price = "shekel" THEN Val(300)
    ELSE Missing

\* Line 163: is_sell_context.
is_sell_context(text) ==
    \/ any_marker(text)
    \/ (change_qty(text).kind = "val" /\ change_qty(text).v < 0)

Abs(v) == IF v < 0 THEN 0 - v ELSE v

\* Lines 168-170: amount_nis, in agorot.
amount_nis(text) ==
    IF change_qty(text).kind = "val" /\ price_nis(text).kind = "val"
    THEN Val(Abs(change_qty(text).v) * price_nis(text).v)
    ELSE Missing

\* A cell of the returned row: the value, or "" for None.
OrEmpty(cell) == IF cell.kind = "val" THEN cell ELSE Garbage

\* Lines 106-187: the rows parse_tase_report_text returns.
parse_tase_report_text(text) ==
    IF ~any_marker(text) THEN <<>>
    ELSE IF ~is_sell_context(text) THEN <<>>
    ELSE << [change_qty |-> OrEmpty(change_qty(text)),
             price_nis |-> OrEmpty(price_nis(text)),
             amount_nis |-> OrEmpty(amount_nis(text))] >>

TextInit ==
    /\ BuildIdle /\ EvalIdle
    /\ StoreIdle /\ ScanIdle /\ SellIdle /\ ParseIdle /\ TaseIdle
    /\ QuartersIdle
    /\ report_text \in ReportTexts
    /\ tase_rows = <<>>
    /\ text_pc = "start"

\* A call of parse_tase_report_text on the text.
ParseText ==
    /\ text_pc = "start"
    /\ tase_rows' = parse_tase_report_text(report_text)
    /\ text_pc' = "done"
    /\ UNCHANGED report_text
    /\ UNCHANGED <<fceVars, mainVars, evalVars, storeVars, scanVars, sellVars,
                   parseVars, taseVars, quarterVars>>

TextNext == ParseText

SpecTaseParse == TextInit /\ [][TextNext]_vars

(***************************************************************************)
(* C28. parse_tase_report_text returns a row only for a sell: a report     *)
(* whose parsed change in quantity is positive yields no row, whatever     *)
(* marker phrases its text contains.                                       *)
(***************************************************************************)
C28_PositiveChangeNoRow ==
    (/\ text_pc = "done"
     /\ change_qty(report_text).kind = "val"
     /\ change_qty(report_text).v > 0)
        => tase_rows = <<>>

(***************************************************************************)
(* The Form 4 parsers: insider_scanner.parse_form4_xml (purchases) and     *)
(* sell_alerts.parse_form4_sells (sells).  A document is its symbol, its   *)
(* reporting owners, whether it mentions 10b5-1, and its non-derivative    *)
(* transactions; the text of a number is a cell: Val(v) for digits,        *)
(* Comma(v) for digits with thousands separators, Garbage for any other    *)
(* text, Missing for an absent node.                                       *)
(***************************************************************************)
MaxTx == 2

Comma(v) == [kind |-> "comma", v |-> v]

\* The empty string, as a cell.
EmptyText == [kind |-> "empty", v |-> 0]

Tx(code, shares, price, date) ==
    [code |-> code, shares |-> shares, price |-> price, date |-> date]

\* The transactions the documents are made of.
TxKinds ==
    << Tx("P", Val(2), Val(5), Val(1)),
       Tx("S", Val(2), Val(5), Val(1)),
       Tx("M", Val(1), Val(0), Val(1)),
       Tx("P", Comma(3), Val(5), Val(1)),
       Tx("S", Comma(3), Val(5), Val(1)),
       Tx("P", Val(2), Garbage, Val(2)),
       Tx("S", Val(2), Garbage, Val(2)),
       Tx("P", Missing, Val(5), Missing),
       Tx("S", Val(2), Missing, Missing),
       Tx("S", Val(1), Val(1), Garbage) >>

RECURSIVE TxLists(_)
TxLists(n) ==
    IF n = 0 THEN {<<>>}
    ELSE TxLists(n - 1) \cup
         {Append(l, TxKinds[m]) :
            l \in {x \in TxLists(n - 1) : Len(x) = n - 1},
            m \in 1..Len(TxKinds)}

OwnerLists == {<<>>, <<"o1">>, <<"o1", "FUND LLC">>}

XmlDocs ==
    {[symbol |-> sy, owners |-> ow, tenb5 |-> tb, txs |-> tl] :
        sy \in {"a", "A"}, ow \in OwnerLists, tb \in BOOLEAN,
        tl \in TxLists(MaxTx)}

\* insider_scanner.py lines 117-125: to_float, 0.0 for what float() rejects
\* once the commas are removed.
to_float(cell) ==
    IF cell.kind \in {"val", "comma"} THEN cell.v ELSE 0

\* sell_alerts.py lines 161-174: float(val(node)), NaN for an absent node
\* and for what float() rejects; commas are not removed.
float_or_nan(cell) ==
    IF cell.kind = "val" THEN cell.v ELSE NaN

amount_shares_only(shares, price) == shares

\* insider_scanner.py line 126: amount = shares * price
amount(shares, price) == shares * price

\* sell_alerts.py line 181: amt, NaN when a factor is NaN.
amt(shares, price) ==
    IF shares # NaN /\ price # NaN THEN shares * price ELSE NaN

\* insider_scanner.py lines 127-131: txn_dt, "" when the date has no value.
txn_dt(cell) == IF cell.kind = "na" THEN EmptyText ELSE cell

\* sell_alerts.py lines 175-179: when, None when the date does not parse.
when(cell) == IF cell.kind = "val" THEN cell ELSE Missing

\* sell_alerts.py line 134: sym = ts.text.strip().upper()
upper(sy) == IF sy = "a" THEN "A" ELSE sy

\* One row per owner for a transaction.
OwnerRows(owners, row) ==
    [m \in 1..Len(owners) |-> [row EXCEPT !.owner = owners[m]]]

\* insider_scanner.py lines 109-142: the rows of the transactions 1..n.
RECURSIVE PurchaseRows(_, _, _)
PurchaseRows(doc, owners, n) ==
    IF n = 0 THEN <<>>
    ELSE LET tx == doc.txs[n]
             shares == to_float(tx.shares)
             price == to_float(tx.price)
         IN  PurchaseRows(doc, owners, n - 1) \o
             (IF tx.code # "P" THEN <<>>
              ELSE OwnerRows(owners,
                     [symbol |-> doc.symbol, owner |-> "",
                      shares |-> shares, price |-> price,
                      amount_usd |-> amount(shares, price),
                      tenb5 |-> doc.tenb5, txn_date |-> txn_dt(tx.date),
                      sell_to_cover |-> FALSE]))

\* insider_scanner.py lines 85-143: parse_form4_xml.
parse_form4_xml(doc) ==
    PurchaseRows(doc, IF doc.owners = <<>> THEN <<"(unknown)">> ELSE doc.owners,
                 Len(doc.txs))

\* sell_alerts.py lines 145-146: looks_like_entity
looks_like_entity(name) == name = "FUND LLC"

\* sell_alerts.py lines 29-33: the filters read from the environment.
SellEnvs ==
    [MIN_USD : {0, 5}, EXCLUDE_10B5 : BOOLEAN, EXCLUDE_COVER : BOOLEAN,
     PEOPLE_ONLY : BOOLEAN]

\* sell_alerts.py lines 149-152: has_M
has_M(doc) == \E m \in 1..Len(doc.txs) : doc.txs[m].code = "M"

\* sell_alerts.py lines 194-204: the filters on a row.
Kept(row, env) ==
    /\ ~(env.PEOPLE_ONLY /\ looks_like_entity(row.owner))
    /\ ~(env.EXCLUDE_10B5 /\ row.tenb5)
    /\ ~(env.EXCLUDE_COVER /\ row.sell_to_cover)
    /\ row.amount_usd # NaN
    /\ row.amount_usd >= env.MIN_USD

\* sell_alerts.py lines 155-205: the rows of the transactions 1..n.
RECURSIVE SellRows(_, _, _, _)
SellRows(doc, owners, n, env) ==
    IF n = 0 THEN <<>>
    ELSE LET tx == doc.txs[n]
             shares == float_or_nan(tx.shares)
             price == float_or_nan(tx.price)
         IN  SellRows(doc, owners, n - 1, env) \o
             (IF tx.code # "S" THEN <<>>
              ELSE SelectSeq(
                     OwnerRows(owners,
                       [symbol |-> upper(doc.symbol), owner |-> "",
                        shares |-> shares, price |-> price,
                        amount_usd |-> amt(shares, price),
                        tenb5 |-> doc.tenb5, txn_date |-> when(tx.date),
                        sell_to_cover |-> has_M(doc)]),
                     LAMBDA row : Kept(row, env)))

\* sell_alerts.py lines 117-206: parse_form4_sells.
parse_form4_sells(doc, env) ==
    SellRows(doc, IF doc.owners = <<>> THEN <<"UNKNOWN">> ELSE doc.owners,
             Len(doc.txs), env)

ParseInit ==
    /\ BuildIdle /\ EvalIdle
    /\ StoreIdle /\ ScanIdle /\ SellIdle /\ TaseIdle /\ TextIdle
    /\ QuartersIdle
    /\ xml_doc \in XmlDocs
    /\ parsed = <<>>
    /\ parse_pc = "start"

parseRest ==
    <<fceVars, mainVars, evalVars, storeVars, scanVars, sellVars, taseVars,
      textVars, quarterVars>>

\* A call of parse_form4_xml on the document.
ParsePurchases ==
    /\ parse_pc = "start"
    /\ parsed' = parse_form4_xml(xml_doc)
    /\ parse_pc' = "purchases"
    /\ UNCHANGED xml_doc
    /\ UNCHANGED parseRest

\* A call of parse_form4_sells on the document.
ParseSells ==
    /\ parse_pc = "start"
    /\ \E env \in SellEnvs : parsed' = parse_form4_sells(xml_doc, env)
    /\ parse_pc' = "sells"
    /\ UNCHANGED xml_doc
    /\ UNCHANGED parseRest

ParseNext == ParsePurchases \/ ParseSells

SpecParse == ParseInit /\ [][ParseNext]_vars

(***************************************************************************)
(* C23. Notional identity: every row of parse_form4_xml and of             *)
(* parse_form4_sells has amount_usd equal to shares * price of the same    *)
(* row, and the rows are one per transaction and reporting owner: every    *)
(* purchase of the document gives one row per owner, and the sells give    *)
(* at most one.                                                            *)
(***************************************************************************)
\* The number of reporting owners rows are made for.
NOwners == IF xml_doc.owners = <<>> THEN 1 ELSE Len(xml_doc.owners)

\* The number of transactions of the document with the code.
NCode(code) ==
    Cardinality({m \in 1..Len(xml_doc.txs) : xml_doc.txs[m].code = code})

C23_NotionalIdentity ==
    /\ \A m \in 1..Len(parsed) :
          /\ parsed[m].shares # NaN /\ parsed[m].price # NaN
          /\ parsed[m].amount_usd = parsed[m].shares * parsed[m].price
    /\ parse_pc = "purchases" => Len(parsed) = NCode("P") * NOwners
    /\ parse_pc = "sells" => Len(parsed) <= NCode("S") * NOwners

\* A sell of 2 shares at 5 reported by two owners: two rows, the first with
\* the amount 10.
C23_Witness ==
    /\ parse_pc = "sells"
    /\ Len(parsed) >= 2
    /\ parsed[1].amount_usd = 10
    /\ parsed[1].owner # parsed[2].owner

(***************************************************************************)
(* The trade store insider_trades.csv, written by insider_scanner's        *)
(* append_trades and by sell_alerts.main.  A row is its key columns, its   *)
(* amount and its sell_to_cover column; a cell is Val(v), EmptyText for    *)
(* the string "", or Missing for None, NaN and an absent column.  In the   *)
(* file a cell is a field: Val(v), or EmptyText for the empty field.       *)
(***************************************************************************)
MaxBatch == 2
MaxAppends == 3

TradeRow(sy, ow, td, url, am, stc) ==
    [symbol |-> sy, owner |-> ow, txn_date |-> td, xml_url |-> url,
     amount_usd |-> am, sell_to_cover |-> stc]

\* Rows as parse_form4_xml and main make them: no sell_to_cover column, and
\* txn_date "" for a transaction without a date.
PurchasePool ==
    { TradeRow("A", "o1", Val(1), "u1", Val(10), Missing),
      TradeRow("A", "o2", Val(1), "u1", Val(10), Missing),
      TradeRow("A", "o1", EmptyText, "u2", Val(0), Missing) }

\* Rows as parse_form4_sells and main make them: txn_date None for a
\* transaction without a date.
SellPool ==
    { TradeRow("A", "o1", Val(1), "u3", Val(10), Val(0)),
      TradeRow("B", "o2", Missing, "u4", Val(10), Val(1)) }

\* The non-empty batches of at most n distinct rows of the pool.
RECURSIVE Batches(_, _)
Batches(pool, n) ==
    IF n = 0 THEN {}
    ELSE Batches(pool, n - 1) \cup
         {<<row>> : row \in pool} \cup
         {Append(b, row) : b \in {x \in Batches(pool, n - 1) : Len(x) = n - 1},
                           row \in {x \in pool : TRUE}}

NoRepeat(b) == \A m1, m2 \in 1..Len(b) : b[m1] = b[m2] => m1 = m2

PurchaseBatches == {b \in Batches(PurchasePool, MaxBatch) : NoRepeat(b)}
SellBatches == {b \in Batches(SellPool, MaxBatch) : NoRepeat(b)}

\* DataFrame.to_csv: "", None and NaN are all written as the empty field.
ToField(cell) == IF cell.kind = "val" THEN cell ELSE EmptyText

\* pd.read_csv: the empty field is read as NaN.
FromField(cell) == IF cell.kind = "val" THEN cell ELSE Missing

MapRow(row, F(_)) ==
    [row EXCEPT !.txn_date = F(row.txn_date),
                !.amount_usd = F(row.amount_usd),
                !.sell_to_cover = F(row.sell_to_cover)]

to_csv(frame) == File([m \in 1..Len(frame) |-> MapRow(frame[m], ToField)])

read_csv(f) == [m \in 1..Len(f.records) |-> MapRow(f.records[m], FromField)]

\* insider_scanner.py lines 145-156: load_existing_trades, the ten columns
\* of cols only; sell_to_cover is not one of them.
load_existing_trades(f) ==
    IF ~f.exists THEN <<>>
    ELSE LET frame == read_csv(f)
         IN  [m \in 1..Len(frame) |-> [frame[m] EXCEPT !.sell_to_cover = Missing]]

\* subset=["symbol","owner","txn_date","xml_url"]
DedupKey(row) == <<row.symbol, row.owner, row.txn_date, row.xml_url>>

\* Line 166: drop_duplicates, the first row of each key kept.
drop_duplicates(frame) ==
    LET keep == {m \in 1..Len(frame) :
                    \A m0 \in 1..(m - 1) : DedupKey(frame[m0]) # DedupKey(frame[m])}
        F[m \in 0..Len(frame)] ==
            IF m = 0 THEN <<>>
            ELSE IF m \in keep THEN Append(F[m - 1], frame[m]) ELSE F[m - 1]
    IN  F[Len(frame)]

\* insider_scanner.py lines 158-168: append_trades, the file it writes.
append_trades(f, batch) ==
    to_csv(drop_duplicates(load_existing_trades(f) \o batch))

\* sell_alerts.py lines 208-217: load_df, every column of the file.
load_df(f) == IF ~f.exists THEN <<>> ELSE read_csv(f)

\* sell_alerts.py lines 262-266: the file main writes for a non-empty
\* all_rows.
append_sells(f, batch) == to_csv(load_df(f) \o batch)

StoreInit ==
    /\ BuildIdle /\ EvalIdle
    /\ ScanIdle /\ SellIdle /\ ParseIdle /\ TaseIdle /\ TextIdle
    /\ QuartersIdle
    /\ trades_csv = NoFile
    /\ append_log = <<>>
    /\ appends = 0

storeRest ==
    <<fceVars, mainVars, evalVars, scanVars, sellVars, parseVars, taseVars,
      textVars, quarterVars>>

Logged(by, batch, after) ==
    Append(append_log,
           [by |-> by, before |-> trades_csv, batch |-> batch, after |-> after])

\* insider_scanner.main, line 240: append_trades(collected), collected
\* not empty.
ScannerAppend ==
    /\ appends < MaxAppends
    /\ \E batch \in PurchaseBatches :
         /\ trades_csv' = append_trades(trades_csv, batch)
         /\ append_log' = Logged("scanner", batch, trades_csv')
    /\ appends' = appends + 1
    /\ UNCHANGED storeRest

\* sell_alerts.main, lines 262-266, all_rows not empty.
SellsAppend ==
    /\ appends < MaxAppends
    /\ \E batch \in SellBatches :
         /\ trades_csv' = append_sells(trades_csv, batch)
         /\ append_log' = Logged("sells", batch, trades_csv')
    /\ appends' = appends + 1
    /\ UNCHANGED storeRest

StoreNext == ScannerAppend \/ SellsAppend

SpecStore == StoreInit /\ [][StoreNext]_vars

(***************************************************************************)
(* C21. append_trades is an idempotent append: appending the batch that    *)
(* the previous append_trades appended leaves the stored rows as they      *)
(* are, and the rows stored before an append_trades are all stored,        *)
(* unmodified, after it.                                                   *)
(***************************************************************************)
RowSet(f) == {f.records[m] : m \in 1..Len(f.records)}

C21_IdempotentAppend ==
    \A m \in 1..Len(append_log) :
        append_log[m].by = "scanner" =>
            /\ RowSet(append_log[m].before) \subseteq RowSet(append_log[m].after)
            /\ (/\ m > 1
                /\ append_log[m - 1].by = "scanner"
                /\ append_log[m - 1].batch = append_log[m].batch)
                   => append_log[m].after = append_log[m].before

(***************************************************************************)
(* C22. The trade store is deduplicated after any sequence of runs of the  *)
(* two scanners: no two stored rows that carry a transaction date have the *)
(* same symbol, owner, transaction date and source document URL.           *)
(***************************************************************************)
C22_StoreDeduplicated ==
    \A m1, m2 \in 1..Len(trades_csv.records) :
        (/\ trades_csv.records[m1].txn_date.kind = "val"
         /\ DedupKey(trades_csv.records[m1]) = DedupKey(trades_csv.records[m2]))
            => m1 = m2

(***************************************************************************)
(* insider_scanner.py: main's loop over the feed entries, with             *)
(* find_xml_candidates.  A feed entry is its filing index page: the .xml   *)
(* and .txt links on it, in page order, and the links on the Form 4        *)
(* document page that is followed when the index has none.  What a fetch   *)
(* returns is decided when it is made.                                     *)
(***************************************************************************)
MaxEntries == 2

Page(index, doc) == [index |-> index, doc |-> doc]

\* The index pages of the feed.
PagePool ==
    { Page(<<"other.xml", "ownership.xml">>, <<>>),
      Page(<<"lab.xml", "filing.txt", "other.xml", "filing.txt">>, <<>>),
      Page(<<"other.xml", "more.xml">>, <<>>),
      Page(<<>>, <<"primary_doc.xml", "form4.xml">>),
      Page(<<>>, <<>>) }

RECURSIVE Feeds(_)
Feeds(n) ==
    IF n = 0 THEN {<<>>}
    ELSE {Append(f, pg) : f \in Feeds(n - 1), pg \in PagePool}

\* Lines 68-76: score
score(u) ==
    CASE u = "ownership.xml" -> 100
      [] u = "form4.xml" -> 95
      [] u = "primary_doc.xml" -> 85
      [] u = "filing.txt" -> 70
      [] u = "lab.xml" -> 5
      [] OTHER -> 50

\* Lines 78-82: seen, the URLs in the order of their first occurrence.
RECURSIVE Seen(_)
Seen(cands) ==
    IF cands = <<>> THEN <<>>
    ELSE LET front == Seen(SubSeq(cands, 1, Len(cands) - 1))
             u == cands[Len(cands)]
         IN  IF \E m \in 1..Len(front) : front[m] = u THEN front
             ELSE Append(front, u)

\* sorted(..., reverse=True) is stable: u goes after the URLs that score
\* at least as much.
InsertByScore(sorted, u) ==
    LET ahead == Cardinality({m \in 1..Len(sorted) : score(sorted[m]) >= score(u)})
    IN  SubSeq(sorted, 1, ahead) \o <<u>> \o SubSeq(sorted, ahead + 1, Len(sorted))

\* Line 84: sorted(seen.items(), key=score, reverse=True)
RECURSIVE sorted_by_score(_)
sorted_by_score(urls) ==
    IF urls = <<>> THEN <<>>
    ELSE InsertByScore(sorted_by_score(SubSeq(urls, 1, Len(urls) - 1)),
                       urls[Len(urls)])

\* Lines 46-84: find_xml_candidates, the index page fetched; doc_ok tells
\* whether the fetch of the document page succeeds.
find_xml_candidates(page, doc_ok) ==
    LET cands == IF page.index # <<>> THEN page.index
                 ELSE IF page.doc # <<>> /\ doc_ok THEN page.doc
                 ELSE <<>>
    IN  sorted_by_score(Seen(cands))

after_good_continue(rest) == rest

\* Line 227: break, the candidates after a good one are left alone.
after_good(rest) == <<>>

\* The rows collected from a document: parse_form4_xml's rows with
\* xml_url set (lines 222-225).
RowsOf(xml_url) == <<TradeRow("A", "o1", Val(1), xml_url, Val(10), Missing)>>

Fetch(e, url, outcome, cands) ==
    [ent |-> e, url |-> url, outcome |-> outcome, cands |-> cands]

ScanInit ==
    /\ BuildIdle /\ EvalIdle
    /\ StoreIdle /\ SellIdle /\ ParseIdle /\ TaseIdle /\ TextIdle
    /\ QuartersIdle
    /\ entries \in UNION {Feeds(n) : n \in 1..MaxEntries}
    /\ ent = 1
    /\ cand = <<>>
    /\ collected = <<>>
    /\ fetched = <<>>
    /\ scan_pc = "entry"

scanRest ==
    <<fceVars, mainVars, evalVars, sellVars, parseVars, taseVars, textVars,
      quarterVars>>

\* Lines 208-211: the next entry, its index page fetched.
StartEntry ==
    /\ scan_pc = "entry"
    /\ ent <= Len(entries)
    /\ \E doc_ok \in BOOLEAN :
         /\ cand' = find_xml_candidates(entries[ent], doc_ok)
         /\ fetched' = Append(fetched, Fetch(ent, "index", "ok", cand'))
    /\ scan_pc' = "cands"
    /\ UNCHANGED <<entries, ent, collected>>
    /\ UNCHANGED <<storeVars, scanRest>>

\* Lines 211, 232-233: the fetch of the index page raises; the entry is
\* given up with a warning.
IndexFails ==
    /\ scan_pc = "entry"
    /\ ent <= Len(entries)
    /\ fetched' = Append(fetched, Fetch(ent, "index", "fail", <<>>))
    /\ ent' = ent + 1
    /\ UNCHANGED <<entries, cand, collected, scan_pc>>
    /\ UNCHANGED <<storeVars, scanRest>>

\* Lines 213-221, 228-230: the candidate does not fetch, is no ownership
\* document, or parses to no purchase: the next candidate.
SkipCandidate ==
    /\ scan_pc = "cands"
    /\ cand # <<>>
    /\ \E outcome \in {"fail", "reject", "empty"} :
         fetched' = Append(fetched, Fetch(ent, Head(cand), outcome, <<>>))
    /\ cand' = Tail(cand)
    /\ UNCHANGED <<entries, ent, collected, scan_pc>>
    /\ UNCHANGED <<storeVars, scanRest>>

\* Lines 213-227: the candidate parses to purchases: they are collected and
\* the loop over the candidates is left.
TakeCandidate ==
    /\ scan_pc = "cands"
    /\ cand # <<>>
    /\ fetched' = Append(fetched, Fetch(ent, Head(cand), "good", <<>>))
    /\ collected' = collected \o RowsOf(Head(cand))
    /\ cand' = after_good(Tail(cand))
    /\ UNCHANGED <<entries, ent, scan_pc>>
    /\ UNCHANGED <<storeVars, scanRest>>

\* Line 231: the loop over the candidates is over.
EndEntry ==
    /\ scan_pc = "cands"
    /\ cand = <<>>
    /\ ent' = ent + 1
    /\ scan_pc' = "entry"
    /\ UNCHANGED <<entries, cand, collected, fetched>>
    /\ UNCHANGED <<storeVars, scanRest>>

\* Lines 235-238: nothing collected, the store is not touched.
NoPurchases ==
    /\ scan_pc = "entry"
    /\ ent > Len(entries)
    /\ collected = <<>>
    /\ scan_pc' = "done"
    /\ UNCHANGED <<entries, ent, cand, collected, fetched>>
    /\ UNCHANGED <<storeVars, scanRest>>

\* Line 240: append_trades(collected)
AppendCollected ==
    /\ scan_pc = "entry"
    /\ ent > Len(entries)
    /\ collected # <<>>
    /\ trades_csv' = append_trades(trades_csv, collected)
    /\ scan_pc' = "done"
    /\ UNCHANGED <<entries, ent, cand, collected, fetched>>
    /\ UNCHANGED <<append_log, appends, scanRest>>

ScanNext ==
    \/ StartEntry \/ IndexFails \/ SkipCandidate \/ TakeCandidate
    \/ EndEntry \/ NoPurchases \/ AppendCollected

SpecScanner == ScanInit /\ [][ScanNext]_vars

(***************************************************************************)
(* C27. For each feed entry main collects from at most one candidate: the  *)
(* candidates are fetched in find_xml_candidates' order (non-increasing    *)
(* score, no URL repeated), the first that parses to purchases is the last *)
(* one fetched for the entry and the only one collected from, and an       *)
(* entry is left without a collected document only when every candidate    *)
(* was fetched and skipped.                                                *)
(***************************************************************************)
\* The positions in the log of the candidate fetches of entry e.
FetchesOf(e) ==
    {m \in 1..Len(fetched) : fetched[m].ent = e /\ fetched[m].url # "index"}

\* The position in the log of the index fetch of entry e.
IndexFetchOf(e) ==
    {m \in 1..Len(fetched) : fetched[m].ent = e /\ fetched[m].url = "index"}

\* The good fetches so far, as the rows collected from them.
RECURSIVE GoodRows(_)
GoodRows(n) ==
    IF n = 0 THEN <<>>
    ELSE GoodRows(n - 1) \o
         (IF fetched[n].outcome = "good" THEN RowsOf(fetched[n].url) ELSE <<>>)

C27_FirstGoodCandidateOnly ==
    /\ collected = GoodRows(Len(fetched))
    /\ \A e \in 1..Len(entries) :
         \A x \in IndexFetchOf(e) :
            LET cands == fetched[x].cands
                fs == FetchesOf(e)
            IN  /\ \A m1, m2 \in 1..Len(cands) :
                      m1 < m2 => /\ score(cands[m1]) >= score(cands[m2])
                                 /\ cands[m1] # cands[m2]
                /\ Cardinality(fs) <= Len(cands)
                /\ \A m \in fs :
                      /\ fetched[m].url = cands[m - x]
                      /\ m - x \in 1..Cardinality(fs)
                      /\ fetched[m].outcome = "good" => m - x = Cardinality(fs)
                /\ (ent > e /\ \A m \in fs : fetched[m].outcome # "good")
                      => Cardinality(fs) = Len(cands)

\* An entry with three candidates whose first was skipped, whose second was
\* good, and whose third was never fetched.
C27_Witness ==
    /\ ent > 1
    /\ \E x \in IndexFetchOf(1) :
         /\ Len(fetched[x].cands) = 3
         /\ Cardinality(FetchesOf(1)) = 2
         /\ fetched[x + 1].outcome \in {"fail", "reject", "empty"}
         /\ fetched[x + 2].outcome = "good"
         /\ collected # <<>>

(***************************************************************************)
(* sell_alerts.py: main's loop over the filings of the feed, and the       *)
(* append to the trade store after it.                                     *)
(***************************************************************************)
\* Lines 102-107: the four patterns, in order; a URL matches the pattern of
\* its own name and, any .xml, the third.
MatchesPattern(u, pat) ==
    CASE pat = 1 -> u = "ownership.xml"
      [] pat = 2 -> u = "primary_doc.xml"
      [] pat = 3 -> u \notin {"filing.txt"}
      [] OTHER -> u = "filing.txt"

\* Lines 99-115: sell_alerts' find_xml_candidates, the index page fetched:
\* the links pattern by pattern, each URL once.
sell_find_xml_candidates(page) ==
    LET Of(pat) == SelectSeq(page.index, LAMBDA u : MatchesPattern(u, pat))
    IN  Seen(Of(1) \o Of(2) \o Of(3) \o Of(4))

\* Lines 249-255: the rows collected from a document.
SellRowsOf(xml_url) == <<TradeRow("A", "o1", Val(1), xml_url, Val(10), Val(0))>>

SellInit ==
    /\ BuildIdle /\ EvalIdle
    /\ ScanIdle /\ ParseIdle /\ TaseIdle /\ TextIdle /\ QuartersIdle
    /\ trades_csv = NoFile
    /\ append_log = <<>>
    /\ appends = 0
    /\ sell_entries \in UNION {Feeds(n) : n \in 1..MaxEntries}
    /\ sell_ent = 1
    /\ all_rows = <<>>
    /\ sell_pc = "entries"

sellRest ==
    <<fceVars, mainVars, evalVars, scanVars, parseVars, taseVars, textVars,
      quarterVars>>

\* Lines 243-259: one filing; good is the first candidate that fetches and
\* parses to sells (0: none does, each is skipped by the except or by an
\* empty list).
HandleFiling ==
    /\ sell_pc = "entries"
    /\ sell_ent <= Len(sell_entries)
    /\ LET cands == sell_find_xml_candidates(sell_entries[sell_ent])
       IN  \E good \in 0..Len(cands) :
             all_rows' = IF good = 0 THEN all_rows
                         ELSE all_rows \o SellRowsOf(cands[good])
    /\ sell_ent' = sell_ent + 1
    /\ UNCHANGED <<sell_entries, sell_pc>>
    /\ UNCHANGED <<storeVars, sellRest>>

\* Line 245: fetch(index_url) raises inside find_xml_candidates; the call
\* is in no try block, and the exception leaves main.
IndexRaises ==
    /\ sell_pc = "entries"
    /\ sell_ent <= Len(sell_entries)
    /\ sell_pc' = "raised"
    /\ UNCHANGED <<sell_entries, sell_ent, all_rows>>
    /\ UNCHANGED <<storeVars, sellRest>>

\* Lines 262-266: the run's rows are appended to the store.
SaveTrades ==
    /\ sell_pc = "entries"
    /\ sell_ent > Len(sell_entries)
    /\ all_rows # <<>>
    /\ trades_csv' = append_sells(trades_csv, all_rows)
    /\ sell_pc' = "done"
    /\ UNCHANGED <<sell_entries, sell_ent, all_rows>>
    /\ UNCHANGED <<append_log, appends, sellRest>>

\* Lines 262-263: no row in the run, the store is not written.
NothingToSave ==
    /\ sell_pc = "entries"
    /\ sell_ent > Len(sell_entries)
    /\ all_rows = <<>>
    /\ sell_pc' = "done"
    /\ UNCHANGED <<sell_entries, sell_ent, all_rows>>
    /\ UNCHANGED <<storeVars, sellRest>>

SellNext == HandleFiling \/ IndexRaises \/ SaveTrades \/ NothingToSave

SpecSell == SellInit /\ [][SellNext]_vars

(***************************************************************************)
(* C30. A failure while handling one filing is recovered locally: when a   *)
(* run of sell_alerts.main is over, no filing after a failed one is left   *)
(* unhandled and the sells collected in the run are in the trade store.    *)
(***************************************************************************)
C30_FailureRecoveredLocally ==
    sell_pc \in {"done", "raised"} =>
        /\ sell_pc = "done" => sell_ent > Len(sell_entries)
        /\ sell_pc = "raised" => sell_ent = Len(sell_entries)
        /\ \A m \in 1..Len(all_rows) :
              MapRow(all_rows[m], ToField) \in RowSet(trades_csv)

====
